---- MODULE Spec2Model ----
(***************************************************************************)
(* Model of the dsp export server (internal/commands/exportcmd/export.go). *)
(*                                                                         *)
(* Every HTTP request is a goroutine running one of the three handlers.    *)
(* A handler is split into steps at the places where it takes a mutex or   *)
(* reads shared state without one, so that the steps of concurrent         *)
(* handlers interleave exactly where the goroutines can interleave.        *)
(* Statements that touch nothing but the request and the (unchanging)      *)
(* bundle file belong to the step before them.                             *)
(***************************************************************************)
EXTENDS Integers, Sequences, FiniteSets, Bags, TLC

(* ---- bounds of the model ---------------------------------------------- *)
MaxN == 2          \* largest value of the -n flag (maxDownloads) explored
MaxReq == 3        \* number of HTTP requests in one run
MaxTime == 2       \* the wall clock runs over 0..MaxTime
NumIPs == 2        \* number of distinct client addresses

(* ---- program constants (scaled to the model's clock) ------------------ *)
TokenTTL == 1      \* 5 * time.Minute, the life time of an assigned token
Timeout == 1       \* the --timeout flag (default time.Hour)

IPs == 1..NumIPs
TokenId == 1..MaxN
BogusToken == 0    \* an X-One-Time-Token value the server never generated
AllUsers == {"u1", "u2"}
Stranger == "nobody"   \* an X-User value that is not in the -u list

VARIABLES
    Method,        \* s.auth.Method
    Users,         \* s.auth.Users
    maxDownloads,  \* s.maxDownloads
    downloads,     \* s.downloads
    Tokens,        \* s.auth.Tokens: token -> TokenInfo, assigned tokens only
    TokenPool,     \* s.auth.TokenPool: the tokens not yet assigned, FIFO
    Downloaded,    \* s.auth.Downloaded: the users mapped to true
    done,          \* s.done has been closed (and s.server.Close() called)
    exited,        \* Command.Action has returned: the process is gone
    keyExchanged,  \* s.exportInfo.KeyExchange has been filled in
    now,           \* wall clock
    bundleFile,    \* what is at s.bundlePath: "ok", "missing" or "corrupt"
    reqs           \* the requests accepted so far, a bag: requests with the
                   \* same inputs at the same place are interchangeable

VARIABLES
    imp,           \* the run of "dsp import": where it is and what it holds
    hosts,         \* the host registry (~/.dsp-global/hosts): name -> CertInfo
    bun,           \* a bundle on its way through New, Save and Load
    snap           \* a snapshot being taken by processPath

VARIABLES
    cs,            \* a repository's snapshots and the run of "dsp snapshot"
    trk,           \* a repository's tracking configuration (tracking.yaml)
    rp,            \* the repository registry and a repository being moved
    ks             \* the key store: key files and the recipient registry

exportVars == <<Method, Users, maxDownloads, downloads, Tokens, TokenPool,
                Downloaded, done, exited, keyExchanged, bundleFile, reqs>>

importVars == <<imp, hosts>>

bundleVars == <<bun>>

snapshotVars == <<snap>>

repoVars == <<cs, trk, rp, ks>>

(* what the export server does not touch *)
others == <<importVars, bundleVars, snapshotVars, repoVars>>

vars == <<exportVars, now, others>>

server == <<Method, Users, maxDownloads, bundleFile>>

(* ---- helpers ----------------------------------------------------------- *)
Off == "off"       \* the value of a part of the state whose program is not run

RepoOff == cs = Off /\ trk = Off /\ rp = Off /\ ks = Off

Range(s) == {s[i] : i \in 1..Len(s)}

Tail1(s) == SubSeq(s, 2, Len(s))

NoReply == 0
Panic == 1         \* the handler goroutine panicked; net/http drops the reply

(* a request: its inputs (kind .. user), the handler's position and        *)
(* locals (pc, rest, recips), its reply (resp, got) and a record of what   *)
(* it did (passed, observed, counted, late)                                *)
NewRequest(kind, httpMethod, ip, pw, tok, user) ==
    [pc |-> "auth", kind |-> kind, httpMethod |-> httpMethod, ip |-> ip,
     pw |-> pw, tok |-> tok, user |-> user,
     resp |-> NoReply, got |-> BogusToken, passed |-> FALSE,
     observed |-> FALSE, counted |-> FALSE, late |-> FALSE,
     rest |-> << >>, recips |-> {}]

Requests == BagToSet(reqs)

One(q) == SetToBag({q})

(* request q becomes q2 *)
Becomes(q, q2) == reqs' = (reqs (-) One(q)) (+) One(q2)

Reply(q, code) == [q EXCEPT !.resp = code, !.pc = "done", !.rest = << >>]

Goto(q, label) == [q EXCEPT !.pc = label]

Running(q) == ~exited /\ q \in Requests /\ q.pc # "done"

(* generateTokens: count tokens appended to the pool, none in the map *)
generateTokens(count) == [i \in 1..count |-> i]

Init ==
    /\ Method \in {"password", "user"}
    /\ maxDownloads \in 0..MaxN
    /\ Users = IF Method = "user" THEN AllUsers ELSE {}
    /\ downloads = 0
    /\ Tokens = << >>
    /\ TokenPool = IF Method = "password" THEN generateTokens(maxDownloads)
                                           ELSE << >>
    /\ Downloaded = {}
    /\ done = FALSE
    /\ exited = FALSE
    /\ keyExchanged = FALSE
    /\ now = 0
    \* the bundle was loaded by Command.Action; the file may have been
    \* removed or replaced before the first request reads it again
    /\ bundleFile \in {"ok", "missing", "corrupt"}
    /\ reqs = EmptyBag
    /\ imp = Off /\ hosts = Off /\ bun = Off /\ snap = Off /\ RepoOff

(* ---- a request arrives: http.Server.Serve, then authenticateRequest ---- *)
(* password mode: the X-Password header equals s.auth.Password;            *)
(* user mode: X-User is one of s.auth.Users, and the user is then marked   *)
(* in s.auth.Downloaded (no mutex is taken).                               *)
authorized(q) ==
    IF Method = "password" THEN q.pw ELSE q.user \in Users

markOnAuth(q) ==
    IF Method = "user" /\ q.user \in Users
    THEN Downloaded \cup {q.user}
    ELSE Downloaded

AfterAuth(q) ==
    CASE q.kind = "download" ->
           IF Method = "password" THEN "verify" ELSE "limit"
      [] q.kind = "status" ->
           IF Method = "password" THEN "assign" ELSE "respond"
      [] OTHER -> "exchange"

(* authenticateRequest's failure answered with StatusForbidden *)
authenticateRequestForbidden(q) ==
    IF authorized(q) THEN Goto(q, AfterAuth(q)) ELSE Reply(q, 403)

authenticateRequest(q) ==
    IF authorized(q) THEN Goto(q, AfterAuth(q)) ELSE Reply(q, 401)

(* The inputs a handler can tell apart.  What a handler never reads is     *)
(* left at its default: nothing but the method of a key exchange that is   *)
(* not a POST, no address and no token after a wrong password, the token   *)
(* only in /download.  The address matters to the tokens only (a key       *)
(* exchange uses it to name the peer in the host and recipient registries, *)
(* which are not part of this state).  Addresses are interchangeable: a    *)
(* request comes from an address seen before or from the next new one.     *)
NoIP == 0

KnownIPs == {q.ip : q \in Requests} \ {NoIP}

NextIPs == {ip \in IPs : ip <= Cardinality(KnownIPs) + 1}

\* The token headers a client can send: a token the server has handed out, the
\* token it hands out next (math/rand is predictable), or a string that is no
\* token. A request carrying a token deeper in the pool is rejected like
\* BogusToken until that token has become one of these.
Presentable ==
    DOMAIN Tokens
    \cup (IF TokenPool = << >> THEN {} ELSE {Head(TokenPool)})
    \cup {BogusToken}

Inputs ==
    { NewRequest("key-exchange", "GET", NoIP, FALSE, BogusToken, Stranger) }
    \cup
    (IF Method = "password"
     THEN { NewRequest(kind, IF kind = "key-exchange" THEN "POST" ELSE "GET",
                       NoIP, FALSE, BogusToken, Stranger) :
               kind \in {"download", "status", "key-exchange"} }
          \cup { NewRequest("download", "GET", ip, TRUE, tok, Stranger) :
                    ip \in NextIPs, tok \in Presentable }
          \cup { NewRequest("status", "GET", ip, TRUE, BogusToken, Stranger) :
                    ip \in NextIPs }
          \cup { NewRequest("key-exchange", "POST", NoIP, TRUE, BogusToken,
                            Stranger) }
     ELSE { NewRequest(kind, "GET", NoIP, FALSE, BogusToken, user) :
               kind \in {"download", "status"},
               user \in AllUsers \cup {Stranger} }
          \cup { NewRequest("key-exchange", "POST", NoIP, FALSE, BogusToken,
                            Stranger) }
          \cup { NewRequest("key-exchange", "POST", NoIP, FALSE, BogusToken,
                            user) : user \in AllUsers })

limitObserved == \E q \in Requests : q.observed

Serve ==
    /\ ~done /\ ~exited
    /\ BagCardinality(reqs) < MaxReq
    /\ \E in \in Inputs :
         LET q == [in EXCEPT !.late = limitObserved] IN
         IF q.kind = "key-exchange" /\ q.httpMethod # "POST"
         THEN /\ reqs' = reqs (+) One(Reply(q, 405))
              /\ UNCHANGED Downloaded
         ELSE /\ Downloaded' = markOnAuth(q)
              /\ reqs' = reqs (+) One(authenticateRequest(q))
    /\ UNCHANGED <<others, server, downloads, Tokens, TokenPool, done, exited,
                   keyExchanged, now>>

(* ---- verifyToken (under s.auth.mu) ------------------------------------- *)
Expired(info) == now > info.Expiry           \* time.Now().After(info.Expiry)

(* verifyToken without the check of the client address *)
verifyErrorAnyClient(token, clientIP) ==
    IF token \notin DOMAIN Tokens THEN "invalid token"
    ELSE IF Tokens[token].Used THEN "token already used"
    ELSE IF Expired(Tokens[token]) THEN "token expired"
    ELSE "nil"

(* verifyToken without the check of info.Used *)
verifyErrorReusable(token, clientIP) ==
    IF token \notin DOMAIN Tokens THEN "invalid token"
    ELSE IF Expired(Tokens[token]) THEN "token expired"
    ELSE IF Tokens[token].ClientIP # clientIP
         THEN "token assigned to different client"
    ELSE "nil"

verifyError(token, clientIP) ==
    IF token \notin DOMAIN Tokens THEN "invalid token"
    ELSE IF Tokens[token].Used THEN "token already used"
    ELSE IF Expired(Tokens[token]) THEN "token expired"
    ELSE IF Tokens[token].ClientIP # clientIP
         THEN "token assigned to different client"
    ELSE "nil"

verifyToken(q) ==
    /\ Running(q) /\ q.pc = "verify"
    /\ IF verifyError(q.tok, q.ip) = "nil"
       THEN /\ Tokens' = [Tokens EXCEPT ![q.tok].Used = TRUE]
            /\ Becomes(q, [q EXCEPT !.pc = "limit", !.passed = TRUE])
       ELSE /\ Becomes(q, Reply(q, 401))
            /\ UNCHANGED Tokens
    /\ UNCHANGED <<others, server, downloads, TokenPool, Downloaded, done, exited,
                   keyExchanged, now>>

(* ---- shutdown ----------------------------------------------------------- *)
(* close(s.done); s.server.Close().  A request accepted between the two    *)
(* calls behaves as one accepted just before them, so they are one step,   *)
(* done' = TRUE.  Closing the channel again panics, after the reply of the *)
(* request has been written.                                               *)
shutdownPanics == done

(* ---- handleDownload: the bundle file ------------------------------------ *)
(* os.Stat, and in password mode os.ReadFile, bundle.LoadFromBytes and     *)
(* Verify; in user mode the file is served as it is (os.Open,              *)
(* http.ServeContent).                                                     *)
readBundle(q) ==
    IF bundleFile = "missing" THEN Reply(q, 404)
    ELSE IF Method = "password"
         THEN IF bundleFile = "corrupt" THEN Reply(q, 500)
                                        ELSE Goto(q, "range")
         ELSE [q EXCEPT !.resp = 200, !.pc = "final"]

(* ---- handleDownload: the download limit (under s.mu) -------------------- *)
(* the limit test with > for >= *)
limitReachedLate == maxDownloads > 0 /\ downloads > maxDownloads

limitReached == maxDownloads > 0 /\ downloads >= maxDownloads

checkLimit(q) ==
    /\ Running(q) /\ q.pc = "limit"
    /\ IF limitReached
       THEN /\ Becomes(q, [q EXCEPT !.resp = 403, !.pc = "shutdown",
                                    !.observed = TRUE])
            /\ UNCHANGED downloads
       ELSE /\ downloads' = downloads + 1
            /\ Becomes(q, IF Method = "user"
                          THEN [q EXCEPT !.counted = TRUE, !.pc = "markuser"]
                          ELSE readBundle([q EXCEPT !.counted = TRUE]))
    /\ UNCHANGED <<others, server, Tokens, TokenPool, Downloaded, done, exited,
                   keyExchanged, now>>

(* s.shutdown() after the 403, with no mutex held *)
shutdownAfterLimit(q) ==
    /\ Running(q) /\ q.pc = "shutdown"
    /\ done' = TRUE
    /\ Becomes(q, Goto(q, "done"))
    /\ UNCHANGED <<others, server, downloads, Tokens, TokenPool, Downloaded, exited,
                   keyExchanged, now>>

(* user mode: s.auth.Downloaded[user] = true (under s.mu), then the file *)
markDownloaded(q) ==
    /\ Running(q) /\ q.pc = "markuser"
    /\ Downloaded' = Downloaded \cup {q.user}
    /\ Becomes(q, readBundle(q))
    /\ UNCHANGED <<others, server, downloads, Tokens, TokenPool, done, exited,
                   keyExchanged, now>>

(* ---- handleDownload: the recipients (no mutex held) --------------------- *)
(* After the loop: age.Encrypt, encWriter.Write and encWriter.Close (each  *)
(* may fail), then w.Write.  No recipient at all is a 500.                 *)
encryptBundle(q) ==
    IF q.recips = {}
    THEN {Reply(q, 500)}
    ELSE {[q EXCEPT !.resp = 200, !.pc = "markused"], Reply(q, 500)}

afterRecipient(q) ==
    IF q.rest = << >> THEN encryptBundle(q) ELSE {q}

(* for _, tokenID := range s.auth.TokenPool: the slice is read once *)
rangeTokenPool(q) ==
    /\ Running(q) /\ q.pc = "range"
    /\ \E q2 \in afterRecipient([q EXCEPT !.rest = TokenPool,
                                          !.recips = {}, !.pc = "iter"]) :
         Becomes(q, q2)
    /\ UNCHANGED <<others, server, downloads, Tokens, TokenPool, Downloaded, done,
                   exited, keyExchanged, now>>

(* token := s.auth.Tokens[tokenID]; if !token.Used { a recipient for it }: *)
(* a token that is not in the map gives a nil *TokenInfo, and token.Used   *)
(* panics.                                                                 *)
addRecipient(q) ==
    /\ Running(q) /\ q.pc = "iter"
    /\ LET tokenID == Head(q.rest) IN
       IF tokenID \notin DOMAIN Tokens
       THEN Becomes(q, Reply(q, Panic))
       ELSE \E q2 \in afterRecipient(
                        [q EXCEPT !.rest = Tail1(q.rest),
                                  !.recips = IF Tokens[tokenID].Used THEN @
                                             ELSE @ \cup {tokenID}]) :
              Becomes(q, q2)
    /\ UNCHANGED <<others, server, downloads, Tokens, TokenPool, Downloaded, done,
                   exited, keyExchanged, now>>

(* "Mark the used token as used" (under s.auth.mu) *)
markUsed(q) ==
    /\ Running(q) /\ q.pc = "markused"
    /\ Tokens' = IF q.tok \in DOMAIN Tokens
                 THEN [Tokens EXCEPT ![q.tok].Used = TRUE]
                 ELSE Tokens
    /\ Becomes(q, Goto(q, "final"))
    /\ UNCHANGED <<others, server, downloads, TokenPool, Downloaded, done, exited,
                   keyExchanged, now>>

(* ---- handleDownload: "Check if we should shutdown" (under s.mu) --------- *)
allDownloaded == \A user \in Users : user \in Downloaded

shouldShutdown ==
    IF Method = "user" THEN allDownloaded ELSE limitReached

checkShutdown(q) ==
    /\ Running(q) /\ q.pc = "final"
    /\ IF shouldShutdown
       THEN /\ done' = TRUE
            /\ Becomes(q, [q EXCEPT !.pc = "done",
                                    !.observed = (Method # "user")])
       ELSE /\ Becomes(q, Goto(q, "done"))
            /\ UNCHANGED done
    /\ UNCHANGED <<others, server, downloads, Tokens, TokenPool, Downloaded, exited,
                   keyExchanged, now>>

(* ---- assignToken (under s.auth.mu) -------------------------------------- *)
(* "Check if client already has a token": ranging over the map visits the  *)
(* tokens in no fixed order, the first match is returned.                  *)
(* the search for the client's token without the comparison of ClientIP *)
clientTokensAnyClient(clientIP) ==
    {t \in DOMAIN Tokens : ~Tokens[t].Used /\ now < Tokens[t].Expiry}

(* the search for the client's token without the comparison with Expiry *)
clientTokensIgnoreExpiry(clientIP) ==
    {t \in DOMAIN Tokens : Tokens[t].ClientIP = clientIP /\ ~Tokens[t].Used}

(* assignToken without the search for a token the client already has *)
clientTokensNoSearch(clientIP) == {}

clientTokens(clientIP) ==
    {t \in DOMAIN Tokens : /\ Tokens[t].ClientIP = clientIP
                           /\ ~Tokens[t].Used
                           /\ now < Tokens[t].Expiry}  \* Now().Before(Expiry)

newTokenInfo(clientIP) ==
    [Expiry |-> now + TokenTTL, Used |-> FALSE, ClientIP |-> clientIP]

assignToken(q) ==
    /\ Running(q) /\ q.pc = "assign"
    /\ IF clientTokens(q.ip) # {}
       THEN /\ \E t \in clientTokens(q.ip) :
                 Becomes(q, [q EXCEPT !.got = t, !.pc = "respond"])
            /\ UNCHANGED <<Tokens, TokenPool>>
       ELSE IF Len(TokenPool) = 0
       THEN /\ Becomes(q, Reply(q, 403))
            /\ UNCHANGED <<Tokens, TokenPool>>
       ELSE LET token == TokenPool[1] IN
            /\ TokenPool' = Tail1(TokenPool)
            /\ Tokens' = [t \in DOMAIN Tokens \cup {token} |->
                            IF t = token THEN newTokenInfo(q.ip)
                                         ELSE Tokens[t]]
            /\ Becomes(q, [q EXCEPT !.got = token, !.pc = "respond"])
    /\ UNCHANGED <<others, server, downloads, Downloaded, done, exited, keyExchanged,
                   now>>

(* ---- handleStatus: the status response (under s.mu) --------------------- *)
statusResponse(q) ==
    /\ Running(q) /\ q.pc = "respond"
    /\ Becomes(q, Reply(q, 200))
    /\ UNCHANGED <<others, server, downloads, Tokens, TokenPool, Downloaded, done,
                   exited, keyExchanged, now>>

(* ---- handleKeyExchange --------------------------------------------------- *)
(* After authentication: the request body, the host and recipient          *)
(* registries (each step may fail), then the export info is updated under  *)
(* s.mu and the exporter's key is returned.                                *)
handleKeyExchange(q) ==
    /\ Running(q) /\ q.pc = "exchange"
    /\ \E code \in {200, 500} :
         /\ Becomes(q, Reply(q, code))
         /\ keyExchanged' = (keyExchanged \/ code = 200)
    /\ UNCHANGED <<others, server, downloads, Tokens, TokenPool, Downloaded, done,
                   exited, now>>

(* ---- the environment ------------------------------------------------------ *)
(* The clock is read by assignToken and verifyToken only, and only to      *)
(* compare it with the expiry of an assigned, unused token.  While there   *)
(* is no such token that has yet to expire, a tick changes nothing that    *)
(* the server can see, and is left out.                                    *)
Watched == \E t \in DOMAIN Tokens : ~Tokens[t].Used /\ now <= Tokens[t].Expiry

Tick ==
    /\ now < MaxTime
    /\ Watched
    /\ now' = now + 1
    /\ UNCHANGED <<others, server, downloads, Tokens, TokenPool, Downloaded, done,
                   exited, keyExchanged, reqs>>

(* Command.Action: <-server.done; return nil.  The process ends and with   *)
(* it every handler that is still running.                                 *)
waitDone ==
    /\ done /\ ~exited
    /\ exited' = TRUE
    /\ UNCHANGED <<others, server, downloads, Tokens, TokenPool, Downloaded, done,
                   keyExchanged, now, reqs>>

handleDownload(q) ==
    \/ verifyToken(q)
    \/ checkLimit(q)
    \/ shutdownAfterLimit(q)
    \/ markDownloaded(q)
    \/ rangeTokenPool(q)
    \/ addRecipient(q)
    \/ markUsed(q)
    \/ checkShutdown(q)

handleStatus(q) ==
    \/ assignToken(q)
    \/ statusResponse(q)

Handler ==
    \E q \in Requests :
        handleDownload(q) \/ handleStatus(q) \/ handleKeyExchange(q)

Next ==
    \/ Serve
    \/ \E q \in Requests : verifyToken(q)
    \/ \E q \in Requests : checkLimit(q)
    \/ \E q \in Requests : shutdownAfterLimit(q)
    \/ \E q \in Requests : markDownloaded(q)
    \/ \E q \in Requests : rangeTokenPool(q)
    \/ \E q \in Requests : addRecipient(q)
    \/ \E q \in Requests : markUsed(q)
    \/ \E q \in Requests : checkShutdown(q)
    \/ \E q \in Requests : assignToken(q)
    \/ \E q \in Requests : statusResponse(q)
    \/ \E q \in Requests : handleKeyExchange(q)
    \/ Tick
    \/ waitDone

Spec == Init /\ [][Next]_vars

(* Goroutines that can take a step keep taking steps and the clock         *)
(* advances.  (No action is a timer: the code starts none.)                *)
FairSpec ==
    /\ Spec
    /\ WF_vars(Handler)
    /\ WF_vars(Tick)
    /\ WF_vars(waitDone)

TypeOK ==
    /\ Method \in {"password", "user"}
    /\ maxDownloads \in 0..MaxN
    /\ downloads \in 0..MaxReq
    /\ DOMAIN Tokens \subseteq TokenId
    /\ Range(TokenPool) \subseteq TokenId
    /\ Downloaded \subseteq AllUsers
    /\ done \in BOOLEAN /\ exited \in BOOLEAN
    /\ now \in 0..MaxTime
    /\ BagCardinality(reqs) <= MaxReq

(* ======================================================================== *)
(* dsp import (internal/commands/importcmd/import.go) with the host         *)
(* registry (internal/host/host.go).  The server and the network are the    *)
(* environment: what they answer is drawn from small sets, or, for an       *)
(* honest export server, is what handleStatus writes.                       *)
(* ======================================================================== *)
MaxImports == 2    \* number of runs of "dsp import", one after the other

HostNames == {"h1", "h2"}
HostArg == "h1"          \* the --host flag
PasswordArg == "pw"      \* the --password flag
NoTime == -1             \* a time string that time.Parse rejects (or "")
NoCert == [fp |-> "", notAfter |-> NoTime]   \* resp.TLS without certificate

(* the certificates: sha256 of cert.Raw and cert.NotAfter *)
Certs == {[fp |-> "fpA", notAfter |-> 2], [fp |-> "fpB", notAfter |-> 1]}

NoCertInfo == [Fingerprint |-> "", ValidTo |-> NoTime]   \* h.CertInfo == nil

CertInfos == {[Fingerprint |-> c.fp, ValidTo |-> c.notAfter] : c \in Certs}

(* the importer's ExportInfo, as far as the importer reads it *)
ExportInfos ==
    [Host : HostNames, Auth : {"password", "user"},
     Password : {PasswordArg, ""}, Signature : {"valid", "invalid", ""},
     Expires : {NoTime, 0, MaxTime}, Encrypted : BOOLEAN,
     Token : {"", "t1"}, TokenExpiry : {NoTime, 0, MaxTime},
     CertFingerprint : {"", "fpA", "fpB"}]

NoInfo == [Host |-> "", Auth |-> "", Password |-> "", Signature |-> "",
           Expires |-> NoTime, Encrypted |-> FALSE, Token |-> "",
           TokenExpiry |-> NoTime, CertFingerprint |-> ""]

(* handleStatus of an export server in password mode that has a token for  *)
(* the client: the fields of its status struct.                            *)
statusStruct(token, expiry) ==
    [downloads |-> 0, max_downloads |-> 1, auth_method |-> "password",
     token |-> token, token_expiry |-> expiry]

(* json.Decode of that body into the importer's ExportInfo: a field is     *)
(* filled when the body has its json name, and is the zero value otherwise *)
decodeExportInfo(body) ==
    [NoInfo EXCEPT !.Auth = body.auth_method, !.Token = body.token,
                   !.TokenExpiry = body.token_expiry]

(* what a run holds: its position, the peer it talks to, the accepted      *)
(* ExportInfo, the host registry entry and the certificate of the          *)
(* /download connection, the error it ended with, and the successful       *)
(* imports so far (host and certificate)                                   *)
NewImport(run, peer, log) ==
    [pc |-> "status", run |-> run, peer |-> peer, info |-> NoInfo,
     pinned |-> NoCertInfo, cert |-> NoCert, err |-> "", log |-> log]

Fail(msg) == [imp EXCEPT !.pc = "failed", !.err = msg, !.info = NoInfo,
                         !.pinned = NoCertInfo, !.cert = NoCert]

ExportOff ==
    /\ Method = "password" /\ Users = {} /\ maxDownloads = 0
    /\ downloads = 0 /\ Tokens = << >> /\ TokenPool = << >>
    /\ Downloaded = {} /\ done = FALSE /\ exited = FALSE
    /\ keyExchanged = FALSE /\ bundleFile = "ok" /\ reqs = EmptyBag

(* what "dsp import" does not touch *)
outsideImport == <<exportVars, bundleVars, snapshotVars, repoVars>>

(* the registry as found on disk: hosts without or with a certificate *)
InitImport ==
    /\ ExportOff /\ bun = Off /\ snap = Off /\ RepoOff
    /\ now = 0
    /\ hosts \in [HostNames -> {NoCertInfo} \cup CertInfos]
    /\ imp = [NewImport(0, "any", {}) EXCEPT !.pc = "idle"]

(* Command.Action up to downloadBundle: the next run starts *)
startImport ==
    /\ imp.pc \in {"idle", "failed", "imported"}
    /\ imp.run < MaxImports
    /\ \E peer \in {"honest", "any"} :
         imp' = NewImport(imp.run + 1, peer, imp.log)
    /\ UNCHANGED <<outsideImport, now, hosts>>

(* the answers to GET /status: a failure, or 200 over a connection with    *)
(* some certificate (or none) and some body; an honest server answers with *)
(* its own certificate and its status struct                               *)
StatusReplies ==
    IF imp.peer = "honest"
    THEN { [ok |-> TRUE, cert |-> c,
            info |-> decodeExportInfo(statusStruct("t1", MaxTime))] :
              c \in Certs }
    ELSE [ok : BOOLEAN, cert : Certs \cup {NoCert}, info : ExportInfos]

(* the token checks of getExportInfo, verifyExportInfo and downloadBundle *)
tokenError(info) ==
    IF info.Token = "" THEN "missing security token"
    ELSE IF info.TokenExpiry = NoTime THEN "invalid token expiry"
    ELSE IF now > info.TokenExpiry THEN "security token has expired"
    ELSE "nil"

getExportInfoError(r) ==
    IF ~r.ok THEN "server returned error"
    ELSE IF r.cert = NoCert THEN "no certificate received from server"
    ELSE IF r.info.CertFingerprint # r.cert.fp
         THEN "certificate fingerprint mismatch"
    ELSE IF r.info.Auth = "password" THEN tokenError(r.info)
    ELSE "nil"

getExportInfo ==
    /\ imp.pc = "status"
    /\ \E r \in StatusReplies :
         imp' = IF getExportInfoError(r) = "nil"
                THEN [imp EXCEPT !.pc = "verify", !.info = r.info]
                ELSE Fail(getExportInfoError(r))
    /\ UNCHANGED <<outsideImport, now, hosts>>

verifyExportInfoError(info, password) ==
    IF info.Expires = NoTime THEN "invalid expiration time"
    ELSE IF now > info.Expires THEN "export has expired"
    ELSE IF info.Auth # "password" THEN "unsupported authentication method"
    ELSE IF info.Password # password THEN "invalid password"
    ELSE tokenError(info)

(* verifyExportInfo, then "For password auth, verify token" once more *)
verifyExportInfo ==
    /\ imp.pc = "verify"
    /\ imp' = IF verifyExportInfoError(imp.info, PasswordArg) # "nil"
              THEN Fail(verifyExportInfoError(imp.info, PasswordArg))
              ELSE IF tokenError(imp.info) # "nil"
              THEN Fail(tokenError(imp.info))
              ELSE [imp EXCEPT !.pc = "exchange"]
    /\ UNCHANGED <<outsideImport, now, hosts>>

(* performKeyExchange: its failure is a warning.  It stores the exporter's *)
(* public key in the entry of the --host name, if there is one (for a new  *)
(* name UpdateHost fails), and leaves CertInfo alone.                      *)
performKeyExchange ==
    /\ imp.pc = "exchange"
    /\ imp' = [imp EXCEPT !.pc = "download"]
    /\ UNCHANGED <<outsideImport, now, hosts>>

(* Host.VerifyCertificate *)
VerifyCertificate(h, fingerprint, validTo) ==
    IF h = NoCertInfo THEN "nil"
    ELSE IF h.Fingerprint # fingerprint
         THEN "certificate fingerprint mismatch"
    ELSE IF now > h.ValidTo THEN "stored certificate has expired"
    ELSE IF validTo < h.ValidTo
         THEN "new certificate expires before stored certificate"
    ELSE "nil"

(* Host.UpdateCertificate *)
UpdateCertificate(fingerprint, validTo) ==
    [Fingerprint |-> fingerprint, ValidTo |-> validTo]

(* the answers to GET /download: a failure of the connection, or a status  *)
(* over a connection with some certificate and a body: a bundle that       *)
(* passes LoadFromBytes and Verify or one that does not, in the clear or   *)
(* encrypted to key                                                        *)
CombinedKey(info) == PasswordArg \o info.Token

DownloadReplies ==
    [ok : BOOLEAN, cert : Certs \cup {NoCert}, code : {200, 403, 500},
     key : {"", "pwt1", "pwt2"},
     bundle : {"valid", "invalid"}]

(* DecryptWithPassphrase if info.Encrypted, LoadFromBytes, Verify *)
bundleError(info, r) ==
    IF info.Encrypted /\ r.key # CombinedKey(info)
    THEN "failed to decrypt bundle"
    ELSE IF ~info.Encrypted /\ r.key # "" THEN "invalid bundle format"
    ELSE IF r.bundle # "valid" THEN "bundle verification failed"
    ELSE "nil"

(* downloadBundle from client.Do on: the certificate of the connection is  *)
(* verified against the registry entry of info.Host (a new entry without   *)
(* CertInfo when the name is unknown), then the status, then the body; at  *)
(* the end the bundle is written to bundles/ of the temporary directory    *)
downloadBundle ==
    /\ imp.pc = "download"
    /\ \E r \in DownloadReplies, written \in BOOLEAN :
         LET hostEntry == hosts[imp.info.Host]
             verr == VerifyCertificate(hostEntry, r.cert.fp, r.cert.notAfter)
             stored == [imp EXCEPT !.pc = "downloaded", !.cert = r.cert,
                                   !.pinned = hostEntry]
             body == IF r.code # 200 THEN Fail("server returned error")
                     ELSE IF bundleError(imp.info, r) # "nil"
                     THEN Fail(bundleError(imp.info, r))
                     ELSE IF ~written THEN Fail("failed to save bundle")
                     ELSE stored
         IN
         IF ~r.ok
         THEN imp' = Fail("failed to download bundle") /\ UNCHANGED hosts
         ELSE IF r.cert = NoCert
         THEN imp' = Fail("no certificate received") /\ UNCHANGED hosts
         ELSE IF verr # "nil"
         THEN IF hostEntry = NoCertInfo
              THEN IF r.cert.fp # imp.info.CertFingerprint
                   THEN /\ imp' = Fail("fingerprint mismatch with export info")
                        /\ UNCHANGED hosts
                   ELSE /\ hosts' = [hosts EXCEPT ![imp.info.Host] =
                              UpdateCertificate(r.cert.fp, r.cert.notAfter)]
                        /\ imp' = body
              ELSE imp' = Fail(verr) /\ UNCHANGED hosts
         ELSE imp' = body /\ UNCHANGED hosts
    /\ UNCHANGED <<outsideImport, now>>

(* Command.Action after downloadBundle: bundle.Load of the stored file     *)
(* (what passed Verify passes Load), InitializeRepository, the move to     *)
(* bundles/ of the new repository, updateRepositoryConfig and              *)
(* applyTrackedPaths; each step may fail on the file system.               *)
finishImport ==
    /\ imp.pc = "downloaded"
    /\ \E fsok \in BOOLEAN :
         imp' = IF fsok
                THEN [imp EXCEPT !.pc = "imported",
                                 !.log = @ \cup {[host |-> imp.info.Host,
                                                  cert |-> imp.cert]}]
                ELSE Fail("failed to initialize repository")
    /\ UNCHANGED <<outsideImport, now, hosts>>

(* the importer's clock *)
tickImport ==
    /\ now < MaxTime
    /\ imp.pc \notin {"failed", "imported"}
    /\ now' = now + 1
    /\ UNCHANGED <<outsideImport, imp, hosts>>

NextImport ==
    \/ startImport
    \/ getExportInfo
    \/ verifyExportInfo
    \/ performKeyExchange
    \/ downloadBundle
    \/ finishImport
    \/ tickImport

SpecImport == InitImport /\ [][NextImport]_vars


(* ======================================================================== *)
(* Bundles: New, computeChanges, Save, Load and Verify of package bundle    *)
(* (the variant with file contents and initial bundles), with the zip       *)
(* functions of pkg/utils/compression.go.                                   *)
(* ======================================================================== *)
MaxFiles == 2      \* longest file list of a snapshot

PathNames == {"a", "b"}
FileHashes == {"h1", "h2"}
Contents == {"x", "y"}     \* the bytes of a file on disk
Missing == "missing"       \* no file at the path

SnapshotFiles == [Path : PathNames, Hash : FileHashes]

(* The file lists of snapshots.  CreateSnapshot appends what each tracked  *)
(* path yields and tracked paths may overlap (a directory and a file       *)
(* beneath it: only equal paths are refused), so a path can be listed more *)
(* than once.                                                              *)
FileLists == UNION {[1..n -> SnapshotFiles] : n \in 0..MaxFiles}

(* utils.Compress and utils.HashBytes: deterministic and without           *)
(* collisions on the contents of the model                                 *)
Compress(content) == "zstd:" \o content

HashBytes(data) == "sha256:" \o data

(* sourceFiles[f.Path] = f for every f of the list: the last one stays *)
FileMap(files) ==
    [p \in {files[i].Path : i \in DOMAIN files} |->
        files[CHOOSE i \in DOMAIN files :
                 /\ files[i].Path = p
                 /\ \A j \in DOMAIN files : files[j].Path = p => j <= i]]

NewChange(f, type, contentHash) ==
    [Path |-> f.Path, Type |-> type, Hash |-> f.Hash,
     ContentHash |-> contentHash]

(* a change whose ContentHash is the digest of the file before compression *)
WithContentUncompressed(f, type, disk) ==
    NewChange(f, type, HashBytes(disk[f.Path]))

WithContent(f, type, disk) ==
    NewChange(f, type, HashBytes(Compress(disk[f.Path])))

(* New, "For initial bundle, treat all files as additions" *)
initialChanges(target, disk) ==
    [i \in DOMAIN target |-> WithContent(target[i], "add", disk)]

(* computeChanges, the loop over target.Files *)
RECURSIVE targetChanges(_, _, _)
targetChanges(sourceFiles, target, disk) ==
    IF target = << >> THEN << >>
    ELSE LET f == Head(target)
             rest == targetChanges(sourceFiles, Tail(target), disk)
         IN  IF f.Path \notin DOMAIN sourceFiles
             THEN <<WithContent(f, "add", disk)>> \o rest
             ELSE IF sourceFiles[f.Path].Hash # f.Hash
             THEN <<WithContent(f, "modify", disk)>> \o rest
             ELSE rest

(* computeChanges, "Check for deleted files" *)
RECURSIVE deletedChanges(_, _)
deletedChanges(source, targetFiles) ==
    IF source = << >> THEN << >>
    ELSE LET f == Head(source)
             rest == deletedChanges(Tail(source), targetFiles)
         IN  IF f.Path \notin DOMAIN targetFiles
             THEN <<NewChange(f, "delete", "")>> \o rest
             ELSE rest

computeChanges(source, target, disk) ==
    targetChanges(FileMap(source), target, disk)
        \o deletedChanges(source, FileMap(target))

Carried(changes) ==
    {i \in DOMAIN changes : changes[i].Type \in {"add", "modify"}}

NoBundle ==
    [ID |-> "", CreatedBy |-> "", IsInitial |-> FALSE, SourceSnapshot |-> "",
     TargetSnapshot |-> "", Changes |-> << >>, FileContents |-> << >>]

(* New: the bundle of the changes, with the compressed content of every    *)
(* added or modified path as it is on disk now                             *)
New(initial, source, target, createdBy, disk) ==
    LET changes == IF initial THEN initialChanges(target, disk)
                              ELSE computeChanges(source, target, disk)
    IN  [ID |-> "id", CreatedBy |-> createdBy, IsInitial |-> initial,
         SourceSnapshot |-> IF initial THEN "" ELSE "S",
         TargetSnapshot |-> "T",
         Changes |-> changes,
         FileContents |->
             [p \in {changes[i].Path : i \in Carried(changes)} |->
                 Compress(disk[p])]]

(* readAndCompressFile fails for a path that is not on disk any more *)
NewError(initial, source, target, disk) ==
    LET changes == IF initial THEN initialChanges(target, disk)
                              ELSE computeChanges(source, target, disk)
    IN  IF \E i \in Carried(changes) : disk[changes[i].Path] = Missing
        THEN "failed to read file" ELSE "nil"

(* json.Marshal of a Bundle and json.Unmarshal: FileContents is json:"-",  *)
(* source_snapshot and content_hash are omitempty                          *)
Absent == "<absent>"

OmitEmpty(v) == IF v = "" THEN Absent ELSE v

FromJSON(v) == IF v = Absent THEN "" ELSE v

Marshal(b) ==
    [id |-> b.ID, created_by |-> b.CreatedBy, is_initial |-> b.IsInitial,
     source_snapshot |-> OmitEmpty(b.SourceSnapshot),
     target_snapshot |-> b.TargetSnapshot,
     changes |-> [i \in DOMAIN b.Changes |->
                    [path |-> b.Changes[i].Path, type |-> b.Changes[i].Type,
                     hash |-> b.Changes[i].Hash,
                     content_hash |-> OmitEmpty(b.Changes[i].ContentHash)]]]

Unmarshal(m) ==
    [ID |-> m.id, CreatedBy |-> m.created_by, IsInitial |-> m.is_initial,
     SourceSnapshot |-> FromJSON(m.source_snapshot),
     TargetSnapshot |-> m.target_snapshot,
     Changes |-> [i \in DOMAIN m.changes |->
                    [Path |-> m.changes[i].path, Type |-> m.changes[i].type,
                     Hash |-> m.changes[i].hash,
                     ContentHash |-> FromJSON(m.changes[i].content_hash)]],
     FileContents |-> << >>]

(* A zip archive: entry name (the sequence of its path elements) -> data.  *)
(* utils.CreateZipArchive makes, for a file without path ("") and for a    *)
(* directory (a path ending in "/") alike, one empty entry of the given    *)
(* name; the files of the directory are not added.                         *)
CreateZipArchive(files) == [name \in DOMAIN files |-> ""]

(* utils.UpdateZipFile *)
UpdateZipFile(zip, filename, data) ==
    [name \in DOMAIN zip \cup {filename} |->
        IF name = filename THEN data ELSE zip[name]]

MetadataName == <<"metadata.json">>

ContentsName == <<"contents">>

(* Bundle.Save: the contents are written to a temporary directory, then    *)
(* the archive is made of "metadata.json" and "contents"                   *)
Save(b) ==
    UpdateZipFile(CreateZipArchive([name \in {MetadataName, ContentsName} |->
                                       IF name = MetadataName THEN ""
                                       ELSE "tempDir/contents/"]),
                  MetadataName, Marshal(b))

(* An archive in the documented layout, metadata.json and                  *)
(* contents/<content_hash>, as another implementation or an edit of an     *)
(* archive gives it: of the contents of b those in present, and instead of *)
(* those in wrong other bytes                                              *)
ContentHashes(b) == {b.Changes[i].ContentHash : i \in Carried(b.Changes)}

ContentOf(b, h) ==
    b.FileContents[CHOOSE p \in DOMAIN b.FileContents :
                      HashBytes(b.FileContents[p]) = h]

Pack(b, present, wrong) ==
    [name \in {MetadataName} \cup {<<"contents", h>> : h \in present} |->
        IF name = MetadataName THEN Marshal(b)
        ELSE IF name[2] \in wrong THEN "junk"
        ELSE ContentOf(b, name[2])]

(* os.ReadDir(contents) after utils.ExtractZipArchive: the names in the    *)
(* directory; an error when contents is a file or is not there             *)
ContentsEntries(zip) ==
    {name[2] : name \in {n \in DOMAIN zip : Len(n) = 2 /\ n[1] = "contents"}}

ReadDirFails(zip) == ContentsName \in DOMAIN zip \/ ContentsEntries(zip) = {}

(* Load, "Find the change that uses this content": the first change with   *)
(* the content hash of the entry gets the content, then break              *)
FirstChange(changes, h) ==
    CHOOSE i \in DOMAIN changes :
        /\ changes[i].ContentHash = h
        /\ \A j \in DOMAIN changes : changes[j].ContentHash = h => i <= j

Bound(zip, changes) ==
    {h \in ContentsEntries(zip) :
        \E i \in DOMAIN changes : changes[i].ContentHash = h}

LoadFileContents(zip, changes) ==
    [p \in {changes[FirstChange(changes, h)].Path : h \in Bound(zip, changes)}
       |-> zip[<<"contents",
                 CHOOSE h \in Bound(zip, changes) :
                     changes[FirstChange(changes, h)].Path = p>>]]

(* Bundle.Verify, for the fields of the model *)
Verify(b) ==
    IF b.ID = "" THEN "bundle has no ID"
    ELSE IF b.CreatedBy = "" THEN "bundle has no creator"
    ELSE IF b.SourceSnapshot = "" THEN "bundle has no source snapshot"
    ELSE IF b.TargetSnapshot = "" THEN "bundle has no target snapshot"
    ELSE IF Len(b.Changes) = 0 THEN "bundle has no changes"
    ELSE IF \E i \in DOMAIN b.Changes :
               \/ b.Changes[i].Path = ""
               \/ b.Changes[i].Type \notin {"add", "modify", "delete"}
               \/ b.Changes[i].Hash = ""
         THEN "invalid change"
    ELSE "nil"

Loaded(zip) ==
    LET b == Unmarshal(zip[MetadataName])
    IN  [b EXCEPT !.FileContents = LoadFileContents(zip, b.Changes)]

LoadError(zip) ==
    IF MetadataName \notin DOMAIN zip
    THEN "failed to read bundle metadata"
    ELSE IF ReadDirFails(zip) THEN "failed to read contents directory"
    ELSE Verify(Loaded(zip))

(* what the bundle commands do not touch *)
outsideBundle == <<exportVars, now, importVars, snapshotVars, repoVars>>

(* two snapshots (or one, for an initial bundle), the USERNAME of the      *)
(* environment and the files on disk                                       *)
InitBundle ==
    /\ ExportOff /\ now = 0 /\ imp = Off /\ hosts = Off /\ snap = Off
    /\ RepoOff
    /\ \E initial \in BOOLEAN, target \in FileLists,
          createdBy \in {"", "user"},
          disk \in [PathNames -> Contents \cup {Missing}] :
         \E source \in IF initial THEN {<< >>} ELSE FileLists :
            bun = [pc |-> "start", initial |-> initial, source |-> source,
                   target |-> target, createdBy |-> createdBy,
                   disk |-> disk, bundle |-> NoBundle, origin |-> "",
                   archive |-> << >>, loaded |-> NoBundle, err |-> ""]

newBundle ==
    /\ bun.pc = "start"
    /\ LET err == NewError(bun.initial, bun.source, bun.target, bun.disk)
       IN  bun' = IF err # "nil"
                  THEN [bun EXCEPT !.pc = "failed", !.err = err]
                  ELSE [bun EXCEPT !.pc = "new", !.err = "nil",
                           !.bundle = New(bun.initial, bun.source, bun.target,
                                          bun.createdBy, bun.disk)]
    /\ UNCHANGED outsideBundle

saveBundle ==
    /\ bun.pc = "new"
    /\ bun' = [bun EXCEPT !.pc = "saved", !.origin = "Save",
                          !.archive = Save(bun.bundle)]
    /\ UNCHANGED outsideBundle

(* the archive comes from elsewhere *)
receiveArchive ==
    /\ bun.pc = "new"
    /\ \E present \in SUBSET ContentHashes(bun.bundle) :
         \E wrong \in SUBSET present :
            bun' = [bun EXCEPT !.pc = "saved", !.origin = "elsewhere",
                        !.archive = Pack(bun.bundle, present, wrong)]
    /\ UNCHANGED outsideBundle

loadBundle ==
    /\ bun.pc = "saved"
    /\ LET err == LoadError(bun.archive)
       IN  bun' = IF err # "nil"
                  THEN [bun EXCEPT !.pc = "loaded", !.err = err]
                  ELSE [bun EXCEPT !.pc = "loaded", !.err = "nil",
                                   !.loaded = Loaded(bun.archive)]
    /\ UNCHANGED outsideBundle

NextBundle ==
    \/ newBundle
    \/ saveBundle
    \/ receiveArchive
    \/ loadBundle

SpecBundle == InitBundle /\ [][NextBundle]_vars


(* ======================================================================== *)
(* Snapshots: processPath of package snapshot, one tracked path with its    *)
(* exclude patterns walked by filepath.Walk.                                *)
(* ======================================================================== *)
MaxExcludes == 2   \* longest list of exclude patterns of a tracked path

(* strings whose characters matter are sequences of characters *)
Sep == "/"

TrackedRoot == <<"D">>

NameD == <<"d">>
NameLog == <<"x", ".", "l", "o", "g">>
NameTxt == <<"x", ".", "t", "x", "t">>

(* the names an entry can have, in the lexical order of readDirNames *)
Names == <<NameD, NameLog, NameTxt>>

(* the names an entry of a subdirectory can have; they are files *)
LeafNames == {NameLog, NameTxt}

(* the exclude patterns: *.log, d, d/x.log, */x.txt and x.???  *)
Patterns ==
    { <<"*", ".", "l", "o", "g">>,
      <<"d">>,
      <<"d", Sep, "x", ".", "l", "o", "g">>,
      <<"*", Sep, "x", ".", "t", "x", "t">>,
      <<"x", ".", "?", "?", "?">> }

ExcludeLists == UNION {[1..n -> Patterns] : n \in 0..MaxExcludes}

(* an entry of the tracked directory: absent, a file, or a directory with  *)
(* the files kids                                                          *)
Entries ==
    {e \in [kind : {"none", "file", "dir"}, kids : SUBSET LeafNames] :
        e.kind # "dir" => e.kids = {}}

NoEntries == [n \in Range(Names) |-> [kind |-> "none", kids |-> {}]]

Trees == [Range(Names) -> Entries]

(* filepath.Match for patterns of literals, * and ?: neither * nor ?       *)
(* matches the separator                                                   *)
RECURSIVE Match(_, _)
Match(pattern, name) ==
    IF pattern = << >> THEN name = << >>
    ELSE IF Head(pattern) = "*"
    THEN \/ Match(Tail(pattern), name)
         \/ name # << >> /\ Head(name) # Sep /\ Match(pattern, Tail(name))
    ELSE IF Head(pattern) = "?"
    THEN name # << >> /\ Head(name) # Sep
            /\ Match(Tail(pattern), Tail(name))
    ELSE name # << >> /\ Head(name) = Head(pattern)
            /\ Match(Tail(pattern), Tail(name))

(* an entry is named by the names on the way to it from the tracked root;  *)
(* filepath.Rel gives them joined by the separator                         *)
RECURSIVE Rel(_)
Rel(entry) ==
    IF Len(entry) = 1 THEN entry[1]
    ELSE entry[1] \o <<Sep>> \o Rel(Tail(entry))

(* the filePath the walk hands to the callback *)
FilePath(root, entry) == root \o <<Sep>> \o Rel(entry)

IsDir(tree, entry) == Len(entry) = 1 /\ tree[entry[1]].kind = "dir"

(* the sorted names of a directory, as the entries to walk *)
ReadDirNames(tree, dir) ==
    LET names == IF dir = << >>
                 THEN SelectSeq(Names, LAMBDA n : tree[n].kind # "none")
                 ELSE SelectSeq(Names, LAMBDA n : n \in tree[dir[1]].kids)
    IN  [i \in 1..Len(names) |-> dir \o <<names[i]>>]

(* the digest of the file at path; a file holds what its path names *)
HashFile(path) == <<"sha256">> \o path

NewFile(path) == [Path |-> path, Hash |-> HashFile(path)]

Matched(excludes, entry) ==
    \E i \in DOMAIN excludes : Match(excludes[i], Rel(entry))

(* an I/O error waiting at an entry (<< >> is the tracked path itself):    *)
(* "walk" is the error filepath.Walk hands to the callback, "hash" the one *)
(* of utils.HashFile, "readlink" the one of os.Readlink                    *)
NoFault == [entry |-> << >>, kind |-> "none"]

FaultEntries == {<<NameLog>>, <<NameD, NameTxt>>}

Faults ==
    {NoFault} \cup [entry : FaultEntries, kind : {"walk", "hash", "readlink"}]
              \cup {[entry |-> << >>, kind |-> "hash"]}

(* a call of processPath: the tracked path, what os.Stat finds there       *)
(* (root), the directory's entries, and the snapshot's files so far        *)
NewProcessPath(path, root, tree, excludes, fault, files, excluded) ==
    [pc |-> "start", path |-> path, root |-> root, tree |-> tree,
     excludes |-> excludes, fault |-> fault, todo |-> << >>,
     visited |-> << >>, Files |-> files, ExcludedFiles |-> excluded,
     err |-> "nil"]

Returned(s, err) ==
    [s EXCEPT !.pc = IF err = "nil" THEN "done" ELSE "failed",
              !.err = err, !.todo = << >>]

statPathMissingFails(s) ==
    IF s.root \in {"missing", "denied"}
    THEN Returned(s, "failed to stat path")
    ELSE IF s.root = "file"
    THEN IF s.fault = [entry |-> << >>, kind |-> "hash"]
         THEN Returned(s, "failed to hash file")
         ELSE Returned([s EXCEPT !.Files = Append(@, NewFile(s.path))], "nil")
    ELSE LET todo == ReadDirNames(s.tree, << >>)
         IN  IF todo = << >> THEN Returned(s, "nil")
             ELSE [s EXCEPT !.todo = todo, !.pc = "walk"]

(* os.Stat of the tracked path: a missing path is skipped, another error   *)
(* is returned, a file is hashed and recorded, a directory is walked; the  *)
(* walk visits the root first, which the callback skips                    *)
statPath(s) ==
    IF s.root = "missing" THEN Returned(s, "nil")
    ELSE IF s.root = "denied" THEN Returned(s, "failed to stat path")
    ELSE IF s.root = "file"
    THEN IF s.fault = [entry |-> << >>, kind |-> "hash"]
         THEN Returned(s, "failed to hash file")
         ELSE Returned([s EXCEPT !.Files = Append(@, NewFile(s.path))], "nil")
    ELSE LET todo == ReadDirNames(s.tree, << >>)
         IN  IF todo = << >> THEN Returned(s, "nil")
             ELSE [s EXCEPT !.todo = todo, !.pc = "walk"]

CallbackReturn(ret, files, excluded, err) ==
    [ret |-> ret, Files |-> files, ExcludedFiles |-> excluded, err |-> err]

walkFnNoSkipDir(s, entry) ==
    LET faulty(kind) == s.fault = [entry |-> entry, kind |-> kind]
    IN  IF faulty("walk")
        THEN CallbackReturn("error", s.Files, s.ExcludedFiles, "walk error")
        ELSE IF Matched(s.excludes, entry)
        THEN CallbackReturn("nil", s.Files, s.ExcludedFiles + 1, "nil")
        ELSE IF IsDir(s.tree, entry)
        THEN CallbackReturn("nil", s.Files, s.ExcludedFiles, "nil")
        ELSE IF faulty("hash")
        THEN CallbackReturn("error", s.Files, s.ExcludedFiles,
                            "failed to hash file")
        ELSE IF faulty("readlink")
        THEN CallbackReturn("error", s.Files, s.ExcludedFiles,
                            "failed to read symlink")
        ELSE CallbackReturn("nil",
                            Append(s.Files, NewFile(FilePath(s.path, entry))),
                            s.ExcludedFiles, "nil")

(* the callback of filepath.Walk for an entry below the tracked path *)
walkFn(s, entry) ==
    LET faulty(kind) == s.fault = [entry |-> entry, kind |-> kind]
    IN  IF faulty("walk")
        THEN CallbackReturn("error", s.Files, s.ExcludedFiles, "walk error")
        ELSE IF Matched(s.excludes, entry)
        THEN CallbackReturn(IF IsDir(s.tree, entry) THEN "SkipDir" ELSE "nil",
                            s.Files, s.ExcludedFiles + 1, "nil")
        ELSE IF IsDir(s.tree, entry)
        THEN CallbackReturn("nil", s.Files, s.ExcludedFiles, "nil")
        ELSE IF faulty("hash")
        THEN CallbackReturn("error", s.Files, s.ExcludedFiles,
                            "failed to hash file")
        ELSE IF faulty("readlink")
        THEN CallbackReturn("error", s.Files, s.ExcludedFiles,
                            "failed to read symlink")
        ELSE CallbackReturn("nil",
                            Append(s.Files, NewFile(FilePath(s.path, entry))),
                            s.ExcludedFiles, "nil")

(* filepath.Walk at the next entry: the callback is called; an error ends  *)
(* the walk, a directory is entered unless the callback said SkipDir       *)
Walk(s) ==
    LET entry == Head(s.todo)
        r == walkFn(s, entry)
        below == IF IsDir(s.tree, entry) /\ r.ret = "nil"
                 THEN ReadDirNames(s.tree, entry) ELSE << >>
        todo == below \o Tail(s.todo)
        t == [s EXCEPT !.visited = Append(@, entry), !.Files = r.Files,
                       !.ExcludedFiles = r.ExcludedFiles]
    IN  IF r.ret = "error" THEN Returned(t, r.err)
        ELSE IF todo = << >> THEN Returned(t, "nil")
        ELSE [t EXCEPT !.todo = todo]

(* processPath from where it is to its return *)
RECURSIVE RunProcessPath(_)
RunProcessPath(s) ==
    IF s.pc = "start" THEN RunProcessPath(statPath(s))
    ELSE IF s.pc = "walk" THEN RunProcessPath(Walk(s))
    ELSE s

(* what processPath does not touch *)
outsideSnapshot == <<exportVars, now, importVars, bundleVars, repoVars>>

(* one tracked path, what is on disk there (all of it readable), and its   *)
(* exclude patterns                                                        *)
InitSnapshot ==
    /\ ExportOff /\ now = 0 /\ imp = Off /\ hosts = Off /\ bun = Off
    /\ RepoOff
    /\ \E root \in {"missing", "file", "dir"}, excludes \in ExcludeLists :
         \E tree \in IF root = "dir" THEN Trees ELSE {NoEntries} :
            snap = NewProcessPath(TrackedRoot, root, tree, excludes, NoFault,
                                  << >>, 0)

processPath ==
    /\ snap.pc = "start"
    /\ snap' = statPath(snap)
    /\ UNCHANGED outsideSnapshot

walkStep ==
    /\ snap.pc = "walk"
    /\ snap' = Walk(snap)
    /\ UNCHANGED outsideSnapshot

NextSnapshot ==
    \/ processPath
    \/ walkStep

SpecSnapshot == InitSnapshot /\ [][NextSnapshot]_vars


(* ======================================================================== *)
(* "dsp snapshot": Command.Action of package snapshotcmd with               *)
(* snapshot.CreateSnapshot and Snapshot.Save, run several times on one      *)
(* repository.                                                              *)
(* ======================================================================== *)
MaxSnapshots == 2     \* runs of "dsp snapshot"
MaxClock == 4         \* the clock is not advanced by hand beyond this
MaxTracked == 2       \* tracked paths of the repository

(* the clock counts ticks; the directory name has the resolution of a      *)
(* second ("20060102-150405"), the ID that of a tick (UnixNano)            *)
TicksPerSecond == 4

Timestamp(clock) == clock \div TicksPerSecond

(* a file inside the directory D, tracked by itself *)
FileInD == FilePath(<<"D">>, <<NameLog>>)

RootNames == {<<"D">>, <<"E">>, FileInD}

CmdExcludes == {<< >>, <<NameD>>}

(* the tracked paths "dsp track" can have added: exclude patterns are      *)
(* taken for directories only                                              *)
TrackedPaths ==
    {p \in [Path : RootNames, Excludes : CmdExcludes] :
        p.Path = FileInD => p.Excludes = << >>}

(* tracking.yaml: no path is tracked twice *)
TrackingConfigs ==
    {c \in UNION {[1..n -> TrackedPaths] : n \in 0..MaxTracked} :
        \A i, j \in DOMAIN c : i # j => c[i].Path # c[j].Path}

TreeDeep ==
    [n \in Range(Names) |->
        IF n = NameD THEN [kind |-> "dir", kids |-> {NameTxt}]
        ELSE IF n = NameLog THEN [kind |-> "file", kids |-> {}]
        ELSE [kind |-> "none", kids |-> {}]]

(* what a run can find at a tracked path *)
RootStates ==
    {r \in [root : {"missing", "denied", "file", "dir"},
            tree : {NoEntries, TreeDeep}, fault : Faults] :
        /\ r.root \in {"missing", "denied"} =>
              r.tree = NoEntries /\ r.fault = NoFault
        /\ r.root = "file" => r.tree = NoEntries /\ r.fault.entry = << >>
        /\ r.root = "dir" =>
              /\ r.fault.entry # << >> \/ r.fault = NoFault
              /\ r.tree = NoEntries => r.fault = NoFault}

NoFile == [state |-> "none", ID |-> 0, Files |-> << >>]

(* json.MarshalIndent of the snapshot *)
MarshalSnapshot(id, files) == [state |-> "written", ID |-> id, Files |-> files]

(* os.WriteFile: the file is created or truncated, then written *)
WriteFile(old, data, outcome) ==
    IF outcome = "ok" THEN data
    ELSE IF outcome = "open failed" THEN old
    ELSE [state |-> "partial", ID |-> 0, Files |-> << >>]

(* what "dsp snapshot" does not touch *)
outsideSnapshotCmd ==
    <<exportVars, now, importVars, bundleVars, snapshotVars, trk, rp, ks>>

InitSnapshotCmd ==
    /\ ExportOff /\ now = 0 /\ imp = Off /\ hosts = Off /\ bun = Off
    /\ snap = Off /\ trk = Off /\ rp = Off /\ ks = Off
    /\ \E paths \in TrackingConfigs :
          cs = [pc |-> "idle", paths |-> paths, op |-> 0, clock |-> 0,
                stamp |-> 0, store |-> << >>, before |-> << >>,
                ID |-> 0, i |-> 1, Files |-> << >>, ExcludedFiles |-> 0,
                seen |-> << >>, created |-> "none", ret |-> "nil",
                log |-> << >>]

(* Command.Action up to the call of CreateSnapshot: the tracking            *)
(* configuration is loaded, the directory snapshots/<timestamp> is made     *)
snapshotCommand ==
    /\ cs.pc \in {"idle", "returned"}
    /\ cs.op < MaxSnapshots
    /\ LET c == [cs EXCEPT !.op = @ + 1, !.before = cs.store, !.i = 1,
                           !.Files = << >>, !.ExcludedFiles = 0,
                           !.seen = << >>, !.created = "none",
                           !.ret = "nil"]
       IN  IF cs.paths = << >>
           THEN cs' = [c EXCEPT !.pc = "returned",
                                !.ret = "no paths are being tracked"]
           ELSE \E mkdir \in {"ok", "failed"} :
                  LET stamp == Timestamp(cs.clock)
                      t == [c EXCEPT !.clock = @ + 1, !.stamp = stamp]
                  IN  cs' = IF mkdir = "failed"
                            THEN [t EXCEPT !.pc = "returned",
                                    !.ret = "failed to create snapshot directory"]
                            ELSE [t EXCEPT !.pc = "create",
                                    !.store =
                                       IF stamp \in DOMAIN cs.store THEN @
                                       ELSE (stamp :> NoFile) @@ @]
    /\ UNCHANGED outsideSnapshotCmd

(* CreateSnapshot up to its loop: the ID is the time in nanoseconds *)
CreateSnapshot ==
    /\ cs.pc = "create"
    /\ cs' = [cs EXCEPT !.pc = "loop", !.ID = cs.clock, !.clock = @ + 1]
    /\ UNCHANGED outsideSnapshotCmd

(* one round of the loop of CreateSnapshot: processPath of the next        *)
(* tracked path; after the last one the snapshot is returned               *)
processNext ==
    /\ cs.pc = "loop"
    /\ \E r \in RootStates :
         LET path == cs.paths[cs.i]
             s == RunProcessPath(
                     NewProcessPath(path.Path, r.root, r.tree, path.Excludes,
                                    r.fault, cs.Files, cs.ExcludedFiles))
             seen == Append(cs.seen,
                            [path |-> path.Path, excludes |-> path.Excludes,
                             root |-> r.root, tree |-> r.tree,
                             fault |-> r.fault])
         IN  cs' = IF s.err # "nil"
                   THEN [cs EXCEPT !.pc = "returned", !.seen = seen,
                            !.created = "error", !.Files = << >>,
                            !.ExcludedFiles = 0,
                            !.ret = "failed to create snapshot"]
                   ELSE [cs EXCEPT !.seen = seen, !.i = @ + 1,
                            !.Files = s.Files,
                            !.ExcludedFiles = s.ExcludedFiles,
                            !.created = IF cs.i = Len(cs.paths)
                                        THEN "snapshot" ELSE "none",
                            !.pc = IF cs.i = Len(cs.paths)
                                   THEN "save" ELSE "loop"]
    /\ UNCHANGED outsideSnapshotCmd

(* Snapshot.Save to snapshots/<timestamp>/snapshot.json, and the return of *)
(* the command                                                             *)
saveSnapshot ==
    /\ cs.pc = "save"
    /\ \E outcome \in {"ok", "open failed", "write failed"} :
         LET file == WriteFile(cs.store[cs.stamp],
                               MarshalSnapshot(cs.ID, cs.Files), outcome)
         IN  cs' = [cs EXCEPT !.pc = "returned",
                       !.Files = << >>, !.ExcludedFiles = 0,
                       !.seen = << >>, !.created = "none",
                       !.store = [@ EXCEPT ![cs.stamp] = file],
                       !.ret = IF outcome = "ok" THEN "nil"
                               ELSE "failed to save snapshot",
                       !.log = IF outcome = "ok"
                               THEN Append(@, [stamp |-> cs.stamp,
                                               ID |-> cs.ID,
                                               Files |-> cs.Files])
                               ELSE @]
    /\ UNCHANGED outsideSnapshotCmd

(* time passes between two runs *)
tickClock ==
    /\ cs.pc \in {"idle", "returned"}
    /\ cs.clock < MaxClock
    /\ cs' = [cs EXCEPT !.clock = @ + 1]
    /\ UNCHANGED outsideSnapshotCmd

NextSnapshotCmd ==
    \/ snapshotCommand
    \/ CreateSnapshot
    \/ processNext
    \/ saveSnapshot
    \/ tickClock

SpecSnapshotCmd == InitSnapshotCmd /\ [][NextSnapshotCmd]_vars


(* ======================================================================== *)
(* Tracking: "dsp track" and "dsp untrack" with the functions of            *)
(* snapshot/tracking.go on the tracking.yaml of one repository, which       *)
(* "dsp repo remove" closes, "dsp repo add" reopens and "dsp import"        *)
(* registers anew.                                                          *)
(* ======================================================================== *)
MaxArgs == 2       \* most --path flags of one command

(* the paths a command can name, as spelled, and what filepath.Abs makes   *)
(* of them                                                                 *)
ArgPaths == {"D", "./D", "f", "gone", "../e/D"}

(* the repository's root, which is the working directory of the commands *)
RepoRoot == "/r"

Abs(path) ==
    CASE path = "D" -> "/r/D"
      [] path = "./D" -> "/r/D"
      [] path = "f" -> "/r/f"
      [] path = "gone" -> "/r/gone"
      [] path = "../e/D" -> "/e/D"
      [] OTHER -> path

(* os.Stat: /r/D is a directory, /r/f a file, /r/gone does not exist; /e/D *)
(* is a directory of another repository (root /e) on the same machine      *)
Exists(absPath) == absPath \in {"/r/D", "/r/f", "/e/D"}

StatIsDir(absPath) == absPath \in {"/r/D", "/e/D"}

(* filepath.Rel(basepath, targpath) for the absolute paths of the model *)
RelPath(basepath, targpath) ==
    CASE basepath = "/r" /\ targpath = "/r" -> "."
      [] basepath = "/r" /\ targpath = "/r/D" -> "D"
      [] basepath = "/r" /\ targpath = "/r/f" -> "f"
      [] basepath = "/r" /\ targpath = "/r/gone" -> "gone"
      [] basepath = "/r" /\ targpath = "/e/D" -> "../e/D"
      [] OTHER -> targpath

(* strings.HasPrefix(relPath, "..") *)
HasDotDotPrefix(relPath) == relPath = "../e/D"

IsPathInRepository(path, repoRoot) ==
    ~HasDotDotPrefix(RelPath(repoRoot, path))

(* --exclude flags as given; strings.TrimLeft(pattern, "/\\") *)
ExcludeArgs == {"*.log", "/tmp", "a\\b"}

TrimLeft(pattern) == IF pattern = "/tmp" THEN "tmp" ELSE pattern

ContainsBackslash(pattern) == pattern = "a\\b"

PathArgLists == UNION {[1..n -> ArgPaths] : n \in 1..MaxArgs}

ExcludeArgLists == {<< >>} \cup {<<e>> : e \in ExcludeArgs}

NewTrackedPath(path, isDir, excludes) ==
    [Path |-> path, IsDir |-> isDir, Excludes |-> excludes]

(* the tracked paths of the bundle that "dsp import" applies: absolute     *)
(* paths as "dsp track" recorded them in the exporting repository, whose   *)
(* root was /r or /e                                                       *)
BundleTrackedPaths ==
    { << >>,
      <<NewTrackedPath("/r/D", TRUE, << >>)>>,
      <<NewTrackedPath("/r/f", FALSE, << >>)>>,
      <<NewTrackedPath("/r/f", FALSE, << >>),
        NewTrackedPath("/r/D", TRUE, <<"*.log">>)>>,
      <<NewTrackedPath("/e/D", TRUE, << >>)>> }

Result(err, paths) == [err |-> err, Paths |-> paths]

AddTrackedPathUnchecked(paths, path) ==
    IF ~Exists(path.Path) THEN Result("path does not exist", paths)
    ELSE IF Len(path.Excludes) > 0 /\ ~StatIsDir(path.Path)
    THEN Result("exclude patterns can only be specified for directories",
                paths)
    ELSE Result("nil", Append(paths, path))

AddTrackedPathWithExcludes(paths, path) ==
    IF ~Exists(path.Path) THEN Result("path does not exist", paths)
    ELSE IF Len(path.Excludes) > 0 /\ ~StatIsDir(path.Path)
    THEN Result("exclude patterns can only be specified for directories",
                paths)
    ELSE IF \E i \in DOMAIN paths : paths[i].Path = path.Path
    THEN Result("path is already tracked", paths)
    ELSE Result("nil", Append(paths, path))

RemoveTrackedPath(paths, path) ==
    LET absPath == Abs(path)
        found == {i \in DOMAIN paths : paths[i].Path = absPath}
    IN  IF found = {} THEN Result("path is not tracked", paths)
        ELSE LET i == CHOOSE k \in found : \A l \in found : k <= l
             IN  Result("nil", SubSeq(paths, 1, i - 1)
                                  \o SubSeq(paths, i + 1, Len(paths)))

Contains(list, x) == \E i \in DOMAIN list : list[i] = x

RECURSIVE AppendNew(_, _)
AppendNew(excludes, patterns) ==
    IF patterns = << >> THEN excludes
    ELSE AppendNew(IF Contains(excludes, Head(patterns)) THEN excludes
                   ELSE Append(excludes, Head(patterns)),
                   Tail(patterns))

(* the loop over the tracked paths from the i-th on; found is foundAny *)
RECURSIVE AddExcludePatternsFrom(_, _, _, _, _)
AddExcludePatternsFrom(paths, i, absPaths, patterns, found) ==
    IF i > Len(paths)
    THEN Result(IF found THEN "nil"
                ELSE "none of the specified paths are currently tracked",
                paths)
    ELSE IF ~Contains(absPaths, paths[i].Path)
    THEN AddExcludePatternsFrom(paths, i + 1, absPaths, patterns, found)
    ELSE IF ~paths[i].IsDir
    THEN Result("exclude patterns can only be added to directories", paths)
    ELSE AddExcludePatternsFrom(
            [paths EXCEPT ![i].Excludes = AppendNew(@, patterns)],
            i + 1, absPaths, patterns, TRUE)

AddExcludePatterns(paths, args, patterns) ==
    AddExcludePatternsFrom(paths, 1, [k \in DOMAIN args |-> Abs(args[k])],
                           patterns, FALSE)

RECURSIVE RemoveExcludePatternsFrom(_, _, _, _, _)
RemoveExcludePatternsFrom(paths, i, absPaths, patterns, found) ==
    IF i > Len(paths)
    THEN Result(IF found THEN "nil"
                ELSE "none of the specified paths are currently tracked",
                paths)
    ELSE IF ~Contains(absPaths, paths[i].Path)
    THEN RemoveExcludePatternsFrom(paths, i + 1, absPaths, patterns, found)
    ELSE IF ~paths[i].IsDir
    THEN Result("exclude patterns can only be modified for directories",
                paths)
    ELSE IF Len(paths[i].Excludes) = 0
    THEN RemoveExcludePatternsFrom(paths, i + 1, absPaths, patterns, found)
    ELSE RemoveExcludePatternsFrom(
            [paths EXCEPT ![i].Excludes =
                SelectSeq(@, LAMBDA e : ~Contains(patterns, e))],
            i + 1, absPaths, patterns, TRUE)

RemoveExcludePatterns(paths, args, patterns) ==
    RemoveExcludePatternsFrom(paths, 1, [k \in DOMAIN args |-> Abs(args[k])],
                              patterns, FALSE)

(* the exclude patterns of "dsp track" made relative and validated *)
NormalizeExcludes(excludes) ==
    IF \E i \in DOMAIN excludes : ContainsBackslash(TrimLeft(excludes[i]))
    THEN Result("invalid exclude pattern", << >>)
    ELSE Result("nil", [i \in DOMAIN excludes |-> TrimLeft(excludes[i])])

(* the loop of "dsp track" over its --path flags *)
RECURSIVE TrackNewPaths(_, _, _)
TrackNewPaths(paths, args, excludes) ==
    IF args = << >> THEN Result("nil", paths)
    ELSE LET absPath == Abs(Head(args))
         IN  IF ~Exists(absPath) THEN Result("path does not exist", paths)
             ELSE IF ~IsPathInRepository(absPath, RepoRoot)
             THEN Result("path is outside repository root", paths)
             ELSE IF Len(excludes) > 0 /\ ~StatIsDir(absPath)
             THEN Result("exclude patterns can only be used with directories",
                         paths)
             ELSE LET r == AddTrackedPathWithExcludes(
                              paths,
                              NewTrackedPath(absPath, StatIsDir(absPath),
                                             excludes))
                  IN  IF r.err = "nil" \/ r.err = "path is already tracked"
                      THEN TrackNewPaths(r.Paths, Tail(args), excludes)
                      ELSE Result("failed to add path to tracking", paths)

(* the loop of "dsp untrack" over its --path flags *)
RECURSIVE UntrackPaths(_, _)
UntrackPaths(paths, args) ==
    IF args = << >> THEN Result("nil", paths)
    ELSE UntrackPaths(RemoveTrackedPath(paths, Head(args)).Paths, Tail(args))

(* the loop of applyTrackedPaths of "dsp import" *)
RECURSIVE ApplyPaths(_, _)
ApplyPaths(paths, tracked) ==
    IF tracked = << >> THEN Result("nil", paths)
    ELSE LET r == AddTrackedPathWithExcludes(paths, Head(tracked))
         IN  IF r.err # "nil" THEN Result("failed to add tracked path", paths)
             ELSE ApplyPaths(r.Paths, Tail(tracked))

(* what the tracking commands do not touch *)
outsideTracking ==
    <<exportVars, now, importVars, bundleVars, snapshotVars, cs, rp, ks>>

(* a repository after "dsp init": registered, open, nothing tracked; or a  *)
(* directory that is no repository yet, the --root of a "dsp import"       *)
InitTracking ==
    /\ ExportOff /\ now = 0 /\ imp = Off /\ hosts = Off /\ bun = Off
    /\ snap = Off /\ cs = Off /\ rp = Off /\ ks = Off
    /\ \E registered \in BOOLEAN :
         trk = [registered |-> registered, IsClosed |-> FALSE,
                Paths |-> << >>,
                cmd |-> IF registered THEN "init" ELSE "none",
                op |-> IF registered THEN "init" ELSE "none",
                before |-> << >>, wasClosed |-> FALSE,
                wasRegistered |-> FALSE, err |-> "nil"]

(* the command has run: what it was, what it did to the tracking           *)
(* configuration, what it found and what it returned; SaveTrackingConfig  *)
(* is reached only when err is nil                                         *)
Ran(cmd, op, r) ==
    [trk EXCEPT !.cmd = cmd, !.op = op, !.before = trk.Paths,
                !.wasClosed = trk.IsClosed,
                !.wasRegistered = trk.registered, !.err = r.err,
                !.Paths = IF r.err = "nil" THEN r.Paths ELSE @]

trackCommand ==
    /\ \E args \in PathArgLists, excludes \in ExcludeArgLists,
          saved \in BOOLEAN :
         LET op == IF excludes = << >> THEN "add path" ELSE "add exclude"
             norm == NormalizeExcludes(excludes)
             added == AddExcludePatterns(trk.Paths, args, norm.Paths)
             new == TrackNewPaths(trk.Paths, args, norm.Paths)
             save(r) == IF r.err = "nil" /\ ~saved
                        THEN Result("failed to save tracking configuration",
                                    trk.Paths)
                        ELSE r
         IN  trk' =
               IF ~trk.registered
               THEN Ran("track", op, Result("failed to get repository context",
                                   trk.Paths))
               ELSE IF trk.IsClosed
               THEN Ran("track", op, Result("repository is closed", trk.Paths))
               ELSE IF excludes # << >> /\ norm.err # "nil"
               THEN Ran("track", op, Result(norm.err, trk.Paths))
               ELSE IF excludes # << >> /\ added.err = "nil"
               THEN Ran("track", op, save(added))
               ELSE IF /\ excludes # << >>
                       /\ added.err #
                            "none of the specified paths are currently tracked"
               THEN Ran("track", op, Result("failed to add exclude patterns",
                                   trk.Paths))
               ELSE Ran("track", op, save(new))
    /\ UNCHANGED outsideTracking

untrackCommand ==
    /\ \E args \in PathArgLists, excludes \in ExcludeArgLists,
          saved \in BOOLEAN :
         LET op == IF excludes = << >> THEN "remove path"
                   ELSE "remove exclude"
             save(r) == IF r.err = "nil" /\ ~saved
                        THEN Result("failed to save tracking config",
                                    trk.Paths)
                        ELSE r
         IN  trk' =
               IF ~trk.registered
               THEN Ran("untrack", op, Result("failed to get repository context",
                                   trk.Paths))
               ELSE IF excludes # << >>
               THEN Ran("untrack", op, save(RemoveExcludePatterns(trk.Paths, args,
                                                       excludes)))
               ELSE Ran("untrack", op, save(UntrackPaths(trk.Paths, args)))
    /\ UNCHANGED outsideTracking

(* "dsp repo remove": Manager.RemoveRepository takes the repository off    *)
(* the registry and marks its tracking state closed                        *)
repoRemove ==
    /\ trk.registered
    /\ trk' = [Ran("repo remove", "close", Result("nil", trk.Paths))
                  EXCEPT !.registered = FALSE, !.IsClosed = TRUE]
    /\ UNCHANGED outsideTracking

(* "dsp repo add": Manager.AddRepository reopens a closed repository and   *)
(* registers it (a directory that is no repository yet has no metadata     *)
(* directory to add)                                                       *)
repoAdd ==
    /\ ~trk.registered /\ trk.IsClosed
    /\ trk' = [Ran("repo add", "reopen", Result("nil", trk.Paths))
                  EXCEPT !.registered = TRUE, !.IsClosed = FALSE]
    /\ UNCHANGED outsideTracking

(* the step at which a run of "dsp import" fails, if it does *)
ImportFailures ==
    {"none", "download", "load", "register", "move", "config", "save"}

ImportError(fail) ==
    CASE fail = "download" -> "failed to download bundle"
      [] fail = "load" -> "failed to load bundle"
      [] fail = "register" -> "failed to initialize repository"
      [] fail = "move" -> "failed to move bundle to final location"
      [] fail = "config" -> "failed to update repository config"
      [] OTHER -> "failed to apply tracked paths"

(* "dsp import" into the repository's root: the bundle is downloaded and   *)
(* loaded, Manager.InitializeRepository registers the root, the bundle is  *)
(* moved into the metadata directory, the repository configuration is      *)
(* written, and applyTrackedPaths adds the bundle's tracked paths to the   *)
(* tracking configuration found there and saves it                         *)
importRepository ==
    /\ ~trk.registered
    /\ \E tracked \in BundleTrackedPaths, fail \in ImportFailures :
          LET applied == ApplyPaths(trk.Paths, tracked)
              r == IF fail = "none" THEN applied
                   ELSE IF fail = "save" /\ applied.err # "nil" THEN applied
                   ELSE Result(ImportError(fail), trk.Paths)
              op == IF fail \in {"none", "save"} /\ tracked # << >>
                    THEN "add path" ELSE "import"
          IN  trk' = [Ran("import", op, r) EXCEPT
                         !.registered =
                             fail \notin {"download", "load", "register"}]
    /\ UNCHANGED outsideTracking

NextTracking ==
    \/ trackCommand
    \/ untrackCommand
    \/ repoRemove
    \/ repoAdd
    \/ importRepository

SpecTracking == InitTracking /\ [][NextTracking]_vars


(* ======================================================================== *)
(* The repository registry: repo.Manager with the commands that change it   *)
(* ("dsp init", "dsp use", "dsp repo --set-default", "dsp repo remove") and *)
(* Manager.GetCurrentRepo, which every command asks for its repository.     *)
(* ======================================================================== *)
RepoRoots == {"/a", "/b"}            \* directories that can hold a repository
Directories == RepoRoots \cup {"/c"} \* working directories of a command
RepoNames == {"A", "B", "/a"}        \* --name of "dsp init": any string
RepoArgs == RepoNames \cup RepoRoots \cup {"."}

(* filepath.Abs of an argument given in working directory cwd *)
AbsPath(cwd, arg) ==
    CASE arg = "." -> cwd
      [] arg \in {"/a", "/b", "/c"} -> arg
      [] cwd = "/a" /\ arg = "A" -> "/a/A"
      [] cwd = "/a" /\ arg = "B" -> "/a/B"
      [] cwd = "/b" /\ arg = "A" -> "/b/A"
      [] cwd = "/b" /\ arg = "B" -> "/b/B"
      [] cwd = "/c" /\ arg = "A" -> "/c/A"
      [] cwd = "/c" /\ arg = "B" -> "/c/B"
      [] OTHER -> arg

Repository(path, name, isDefault) ==
    [Path |-> path, Name |-> name, IsDefault |-> isDefault]

NoRepository == Repository("", "", FALSE)

Found(repo) == [err |-> "nil", repo |-> repo]

NotFound(err) == [err |-> err, repo |-> NoRepository]

First(set) == CHOOSE i \in set : \A j \in set : i <= j

(* the lookup by name and then by path that GetRepository, SetDefault,     *)
(* SetWorkingRepo and RemoveRepository share: the index, or 0              *)
FindRepo(m, cwd, repoArg) ==
    LET byName == {i \in DOMAIN m.Repos : m.Repos[i].Name = repoArg}
        byPath == {i \in DOMAIN m.Repos :
                      m.Repos[i].Path = AbsPath(cwd, repoArg)}
    IN  IF byName # {} THEN First(byName)
        ELSE IF byPath # {} THEN First(byPath)
        ELSE 0

GetRepository(m, cwd, repoArg) ==
    LET i == FindRepo(m, cwd, repoArg)
    IN  IF i = 0 THEN NotFound("repository not found") ELSE Found(m.Repos[i])

GetWorkingRepo(m, cwd) ==
    IF m.WorkingRepo = "" THEN NotFound("no working repository set")
    ELSE GetRepository(m, cwd, m.WorkingRepo)

GetDefaultRepository(m, cwd) ==
    IF m.DefaultRepo = "" THEN NotFound("no default repository set")
    ELSE GetRepository(m, cwd, m.DefaultRepo)

GetCurrentRepo(m, cwd, repoFlag) ==
    IF repoFlag # "" THEN GetRepository(m, cwd, repoFlag)
    ELSE IF m.WorkingRepo # "" THEN GetWorkingRepo(m, cwd)
    ELSE IF m.DefaultRepo # "" THEN GetDefaultRepository(m, cwd)
    ELSE LET atCwd == {i \in DOMAIN m.Repos : m.Repos[i].Path = cwd}
         IN  IF atCwd # {} THEN Found(m.Repos[First(atCwd)])
             ELSE NotFound("no repository context available")

Changed(err, m) == [err |-> err, m |-> m]

InitializeRepository(m, path, name, isDefault) ==
    IF \E i \in DOMAIN m.Repos : m.Repos[i].Path = path
    THEN Changed("repository already registered", m)
    ELSE Changed("nil",
            [m EXCEPT !.Repos = Append(@, Repository(path, name, isDefault)),
                      !.DefaultRepo = IF isDefault THEN path ELSE @])

RemoveAt(list, i) == SubSeq(list, 1, i - 1) \o SubSeq(list, i + 1, Len(list))

RemoveRepository(m, cwd, repoArg) ==
    LET i == FindRepo(m, cwd, repoArg)
    IN  IF i = 0 THEN Changed("repository not found", m)
        ELSE LET repoPath == m.Repos[i].Path
                 k == First({j \in DOMAIN m.Repos :
                                m.Repos[j].Path = repoPath})
                 rest == RemoveAt(m.Repos, k)
             IN  Changed("nil",
                    [m EXCEPT
                       !.Repos = rest,
                       !.DefaultRepo =
                          IF @ # repoPath THEN @
                          ELSE IF Len(rest) > 0 THEN rest[1].Path ELSE "",
                       !.WorkingRepo = IF @ = repoPath THEN "" ELSE @])

SetDefault(m, cwd, repoArg) ==
    IF repoArg = ""
    THEN Changed("nil",
            [m EXCEPT !.Repos = [i \in DOMAIN m.Repos |->
                                    [m.Repos[i] EXCEPT !.IsDefault = FALSE]],
                      !.DefaultRepo = ""])
    ELSE LET t == FindRepo(m, cwd, repoArg)
         IN  IF t = 0 THEN Changed("repository not found", m)
             ELSE Changed("nil",
                     [m EXCEPT
                        !.Repos = [i \in DOMAIN m.Repos |->
                                     [m.Repos[i] EXCEPT !.IsDefault =
                                         (m.Repos[i].Path = m.Repos[t].Path)]],
                        !.DefaultRepo = m.Repos[t].Path])

SetWorkingRepo(m, cwd, repoArg) ==
    LET byName == {i \in DOMAIN m.Repos : m.Repos[i].Name = repoArg}
        absPath == AbsPath(cwd, repoArg)
    IN  IF byName # {}
        THEN Changed("nil",
                     [m EXCEPT !.WorkingRepo = m.Repos[First(byName)].Path])
        ELSE IF GetRepository(m, cwd, absPath).err # "nil"
        THEN Changed("repository not found", m)
        ELSE Changed("nil", [m EXCEPT !.WorkingRepo = absPath])

ClearWorkingRepo(m) == Changed("nil", [m EXCEPT !.WorkingRepo = ""])

NoCall == [err |-> "not called", repo |-> NoRepository]

(* what the registry commands do not touch *)
outsideRegistry ==
    <<exportVars, now, importVars, bundleVars, snapshotVars, cs, trk, ks>>

(* an empty registry, as NewManager makes it when repos.yaml is missing *)
InitRegistry ==
    /\ ExportOff /\ now = 0 /\ imp = Off /\ hosts = Off /\ bun = Off
    /\ snap = Off /\ cs = Off /\ trk = Off /\ ks = Off
    /\ \E cwd \in Directories :
          rp = [m |-> [Repos |-> << >>, DefaultRepo |-> "",
                       WorkingRepo |-> ""],
                cwd |-> cwd, repoFlag |-> "", got |-> NoCall]

(* a command that changed the registry, or failed to, has returned *)
Saved(r) == [rp EXCEPT !.m = r.m, !.repoFlag = "", !.got = NoCall]

initCommand ==
    /\ \E path \in RepoRoots, name \in RepoNames, isDefault \in BOOLEAN :
          rp' = Saved(InitializeRepository(rp.m, path, name, isDefault))
    /\ UNCHANGED outsideRegistry

useCommand ==
    /\ \E repoArg \in RepoArgs, unset \in BOOLEAN :
          rp' = Saved(IF unset THEN ClearWorkingRepo(rp.m)
                      ELSE SetWorkingRepo(rp.m, rp.cwd, repoArg))
    /\ UNCHANGED outsideRegistry

setDefaultCommand ==
    /\ \E repoArg \in RepoArgs \cup {""} :
          rp' = Saved(SetDefault(rp.m, rp.cwd, repoArg))
    /\ UNCHANGED outsideRegistry

removeCommand ==
    /\ \E repoArg \in RepoArgs :
          rp' = Saved(RemoveRepository(rp.m, rp.cwd, repoArg))
    /\ UNCHANGED outsideRegistry

(* the next command is started in another directory *)
chdir ==
    /\ \E cwd \in Directories \ {rp.cwd} :
          rp' = [rp EXCEPT !.cwd = cwd, !.repoFlag = "", !.got = NoCall]
    /\ UNCHANGED outsideRegistry

(* a command asks for its repository *)
getCurrentRepo ==
    /\ \E repoFlag \in RepoArgs \cup {""} :
          rp' = [rp EXCEPT !.repoFlag = repoFlag,
                           !.got = GetCurrentRepo(rp.m, rp.cwd, repoFlag)]
    /\ UNCHANGED outsideRegistry

NextRegistry ==
    \/ initCommand
    \/ useCommand
    \/ setDefaultCommand
    \/ removeCommand
    \/ chdir
    \/ getCurrentRepo

SpecRegistry == InitRegistry /\ [][NextRegistry]_vars


(* ======================================================================== *)
(* The key store: crypto.KeyManager and the files it keeps under            *)
(* ~/.dsp-global (the age key pair, the signing key pair, the local         *)
(* certificate and its private key).                                        *)
(* ======================================================================== *)
MaxKeys == 3     \* keys and certificates generated in one behaviour

KeyFiles == {"age.key", "age.key.pub", "signing.key", "signing.key.pub",
             "dsp-local.crt", "dsp-local.key"}

(* what a file holds: nothing, one of the placeholders of generateAgeKeys, *)
(* or the n-th key (or certificate) that was generated                     *)
KeyContent(kind, n) == [kind |-> kind, n |-> n]

NoKey == KeyContent("absent", 0)

PlaceholderPrivateKey == KeyContent("placeholder-private-key", 0)

PlaceholderPublicKey == KeyContent("placeholder-public-key", 0)

Generated(n) == KeyContent("generated", n)

(* the steps of an operation at which the file system can fail: 0 is none *)
FailAt == 0..4

KeysResult(err, files) == [err |-> err, files |-> files]

(* generateLocalCertificate: os.WriteFile of the certificate and then of   *)
(* its private key                                                         *)
generateLocalCertificate(files, n, fail) ==
    IF fail = 3 THEN KeysResult("failed to save certificate", files)
    ELSE IF fail = 4
    THEN KeysResult("failed to save private key",
                    [files EXCEPT !["dsp-local.crt"] = Generated(n)])
    ELSE KeysResult("nil",
                    [files EXCEPT !["dsp-local.crt"] = Generated(n),
                                  !["dsp-local.key"] = Generated(n)])

(* generateAgeKeys: os.WriteFile of both placeholder files *)
generateAgeKeys(files, fail) ==
    IF fail = 1 THEN KeysResult("failed to write private key", files)
    ELSE IF fail = 2
    THEN KeysResult("failed to write public key",
                    [files EXCEPT !["age.key"] = PlaceholderPrivateKey])
    ELSE KeysResult("nil",
                    [files EXCEPT !["age.key"] = PlaceholderPrivateKey,
                                  !["age.key.pub"] = PlaceholderPublicKey])

InitializeKeys(files, n, fail) ==
    LET age == generateAgeKeys(files, fail)
    IN  IF age.err # "nil"
        THEN KeysResult("failed to generate age keys", age.files)
        ELSE IF age.files["dsp-local.crt"] # NoKey THEN age
        ELSE LET cert == generateLocalCertificate(age.files, n, fail)
             IN  IF cert.err = "nil" THEN cert
                 ELSE KeysResult("failed to generate local certificate",
                                 cert.files)

(* a key pair written with O_CREATE|O_EXCL: the private key, then the      *)
(* public key; the private key is removed again when the public key cannot *)
(* be created or written                                                   *)
WriteKeyPair(files, private, public, n, fail) ==
    IF files[private] # NoKey \/ fail = 1
    THEN KeysResult("failed to create private key file", files)
    ELSE IF fail = 2 THEN KeysResult("failed to write private key", files)
    ELSE IF files[public] # NoKey \/ fail = 3
    THEN KeysResult("failed to create public key file", files)
    ELSE IF fail = 4 THEN KeysResult("failed to write public key", files)
    ELSE KeysResult("nil", [files EXCEPT ![private] = Generated(n),
                                         ![public] = Generated(n)])

GenerateKeyPair(files, n, fail) ==
    IF files["age.key"] # NoKey
    THEN KeysResult("private key already exists", files)
    ELSE WriteKeyPair(files, "age.key", "age.key.pub", n, fail)

GenerateSigningKeyPair(files, n, fail) ==
    WriteKeyPair(files, "signing.key", "signing.key.pub", n, fail)

(* what the key-store operations do not touch *)
outsideKeys ==
    <<exportVars, now, importVars, bundleVars, snapshotVars, cs, trk, rp>>

(* a fresh ~/.dsp-global, or one that holds a key pair from an earlier use *)
InitKeys ==
    /\ ExportOff /\ now = 0 /\ imp = Off /\ hosts = Off /\ bun = Off
    /\ snap = Off /\ cs = Off /\ trk = Off /\ rp = Off
    /\ ks = [files |-> [f \in KeyFiles |-> NoKey],
             before |-> [f \in KeyFiles |-> NoKey],
             generated |-> 0, op |-> "none", err |-> "nil"]

(* a key-store operation has returned *)
Done(op, r) ==
    [ks EXCEPT !.before = ks.files, !.files = r.files, !.op = op,
               !.err = r.err,
               !.generated = IF r.files = ks.files THEN @ ELSE @ + 1]

initializeKeys ==
    /\ ks.generated < MaxKeys
    /\ \E fail \in FailAt :
          ks' = Done("InitializeKeys",
                     InitializeKeys(ks.files, ks.generated + 1, fail))
    /\ UNCHANGED outsideKeys

generateKeyPair ==
    /\ ks.generated < MaxKeys
    /\ \E fail \in FailAt :
          ks' = Done("GenerateKeyPair",
                     GenerateKeyPair(ks.files, ks.generated + 1, fail))
    /\ UNCHANGED outsideKeys

generateSigningKeyPair ==
    /\ ks.generated < MaxKeys
    /\ \E fail \in FailAt :
          ks' = Done("GenerateSigningKeyPair",
                     GenerateSigningKeyPair(ks.files, ks.generated + 1, fail))
    /\ UNCHANGED outsideKeys

NextKeys ==
    \/ initializeKeys
    \/ generateKeyPair
    \/ generateSigningKeyPair

SpecKeys == InitKeys /\ [][NextKeys]_vars


(* ======================================================================== *)
(* The recipient registry of the key store (keys/recipients.yaml and the    *)
(* key files under keys/public/recipients), changed by "dsp crypto          *)
(* add-recipient", "dsp crypto remove-recipient" and the export server's    *)
(* /key-exchange.                                                           *)
(* ======================================================================== *)
MaxRecipients == 2    \* most recipients in the registry

RecipientNames == {"alice", "10.0.0.1"}   \* --name; a client's address
ClientAddrs == {"10.0.0.1"}
PublicKeys == {"age1x", "age1y", "ssh-rsa"}

(* strings.HasPrefix(publicKey, "age1") *)
HasAgePrefix(publicKey) == publicKey \in {"age1x", "age1y"}

(* fmt.Sprintf("%s-%d", name, time.Now().Unix()) *)
KeyID(name, unix) == <<name, unix>>

NewRecipient(name, keyID, publicKey) ==
    [Name |-> name, KeyID |-> keyID, Key |-> publicKey]

RecipientsResult(err, store) == [err |-> err, store |-> store]

(* store: Recipients is recipients.yaml, pub the key files by key ID;      *)
(* written says whether os.WriteFile of the key file worked, saved whether *)
(* saveConfig did                                                          *)
AddRecipient(store, name, publicKey, unix, written, saved) ==
    IF ~written THEN RecipientsResult("failed to save public key", store)
    ELSE LET keyID == KeyID(name, unix)
             filed == [store EXCEPT !.pub = @ \cup {keyID}]
         IN  IF ~saved THEN RecipientsResult("failed to write config", filed)
             ELSE RecipientsResult("nil",
                     [filed EXCEPT !.Recipients =
                         Append(@, NewRecipient(name, keyID, publicKey))])

RemoveRecipient(store, name, removed, saved) ==
    LET found == {i \in DOMAIN store.Recipients :
                     store.Recipients[i].Name = name}
    IN  IF found = {} THEN RecipientsResult("recipient not found", store)
        ELSE IF ~removed
        THEN RecipientsResult("failed to remove key file", store)
        ELSE LET i == First(found)
                 unfiled == [store EXCEPT
                                !.pub = @ \ {store.Recipients[i].KeyID}]
             IN  IF ~saved
                 THEN RecipientsResult("failed to write config", unfiled)
                 ELSE RecipientsResult("nil",
                         [unfiled EXCEPT
                             !.Recipients = RemoveAt(@, i)])

(* what the recipient operations do not touch *)
outsideRecipients ==
    <<exportVars, importVars, bundleVars, snapshotVars, cs, trk, rp>>

(* NewKeyManager on a fresh ~/.dsp-global: an empty recipients.yaml *)
InitRecipients ==
    /\ ExportOff /\ now = 0 /\ imp = Off /\ hosts = Off /\ bun = Off
    /\ snap = Off /\ cs = Off /\ trk = Off /\ rp = Off
    /\ ks = [store |-> [Recipients |-> << >>, pub |-> {}],
             Hosts |-> {}, before |-> << >>,
             op |-> "none", name |-> "", err |-> "nil"]

Returned28(op, name, r) ==
    [ks EXCEPT !.before = ks.store.Recipients, !.store = r.store,
               !.op = op, !.name = name, !.err = r.err]

addRecipientCommand ==
    /\ Len(ks.store.Recipients) < MaxRecipients
    /\ \E name \in RecipientNames, key \in PublicKeys,
          written \in BOOLEAN, saved \in BOOLEAN :
          ks' = Returned28("AddRecipient", name,
                           AddRecipient(ks.store, name, key, now,
                                        written, saved))
    /\ UNCHANGED <<outsideRecipients, now>>

removeRecipientCommand ==
    /\ \E name \in RecipientNames, removed \in BOOLEAN, saved \in BOOLEAN :
          ks' = Returned28("RemoveRecipient", name,
                           RemoveRecipient(ks.store, name, removed, saved))
    /\ UNCHANGED <<outsideRecipients, now>>

(* POST /key-exchange: the request is answered with an error before the    *)
(* registry is touched (wrong method, not authenticated, bad body, bad     *)
(* key, no exporter key, host registry not written), or the client's       *)
(* address becomes a trusted host and a recipient                          *)
exchangeKeys ==
    /\ Len(ks.store.Recipients) < MaxRecipients
    /\ \E clientIP \in ClientAddrs, key \in PublicKeys,
          accepted \in BOOLEAN, hostSaved \in BOOLEAN,
          written \in BOOLEAN, saved \in BOOLEAN :
          IF ~accepted \/ ~HasAgePrefix(key) \/ ~hostSaved
          THEN ks' = Returned28("handleKeyExchange", clientIP,
                                RecipientsResult("rejected", ks.store))
          ELSE ks' = [Returned28("AddRecipient", clientIP,
                                 AddRecipient(ks.store, clientIP, key, now,
                                              written, saved))
                         EXCEPT !.Hosts =
                            {h \in @ : h.Name # clientIP}
                               \cup {[Name |-> clientIP, PublicKey |-> key]}]
    /\ UNCHANGED <<outsideRecipients, now>>

(* a second passes *)
tickSecond ==
    /\ now < MaxTime
    /\ now' = now + 1
    /\ ks' = [ks EXCEPT !.before = ks.store.Recipients, !.op = "none",
                        !.name = "", !.err = "nil"]
    /\ UNCHANGED outsideRecipients

NextRecipients ==
    \/ addRecipientCommand
    \/ removeRecipientCommand
    \/ exchangeKeys
    \/ tickSecond

SpecRecipients == InitRecipients /\ [][NextRecipients]_vars


(* ======================================================================== *)
(* "dsp repo move": moveRepository on the registry (repos.yaml) and the     *)
(* metadata directories of the repository roots.                            *)
(* ======================================================================== *)
MoveNames == {"A", "B"}
MoveCwd == "/c"      \* the directory the commands are started in

(* a root's metadata directory: missing, complete with an open or a closed *)
(* tracking state, or incomplete (no config.yaml)                          *)
MetaStates == {"none", "open", "closed", "partial"}

Complete(meta) == meta \in {"open", "closed"}

(* closeRepositoryTrackingWithInfo: LoadTrackingConfig takes a missing     *)
(* tracking.yaml for an empty one and SaveTrackingConfig makes the         *)
(* directory                                                               *)
closeRepositoryTracking(fs, repoPath) ==
    [fs EXCEPT ![repoPath] = IF Complete(@) THEN "closed" ELSE "partial"]

(* os.Rename of a directory onto dst works when dst is missing (or empty); *)
(* the directory is then at dst only                                       *)
Rename(fs, src, dst) == [fs EXCEPT ![dst] = fs[src], ![src] = "none"]

Registered(m, path) == \E i \in DOMAIN m.Repos : m.Repos[i].Path = path

AddResult(err, m, fs) == [err |-> err, m |-> m, fs |-> fs]

(* Manager.AddRepository for the metadata directory of repoRoot; m is the  *)
(* Manager in memory, saved says whether Manager.Save worked               *)
AddRepository(m, fs, repoRoot, name, isDefault, saved) ==
    IF Registered(m, repoRoot)
    THEN AddResult("repository already registered", m, fs)
    ELSE IF ~Complete(fs[repoRoot])
    THEN AddResult("no DSP configuration found", m, fs)
    ELSE LET reopened == [fs EXCEPT ![repoRoot] = "open"]
             added == [m EXCEPT
                         !.Repos = Append(@, Repository(repoRoot, name,
                                                        isDefault)),
                         !.DefaultRepo = IF isDefault THEN repoRoot ELSE @]
         IN  IF saved THEN AddResult("nil", added, reopened)
             ELSE AddResult("failed to save manager state", added, reopened)

(* which calls of the file system and of Manager.Save work *)
MoveFaults ==
    {io \in [copied : BOOLEAN, renamed : BOOLEAN, fallback : BOOLEAN,
             removeSaved : BOOLEAN, addSaved : BOOLEAN, restored : BOOLEAN,
             readdSaved : BOOLEAN] :
        \* what is never reached is left out: a later call stands for one
        \* that works when an earlier call failed
        /\ ~io.copied => io.renamed /\ io.removeSaved
        /\ io.renamed => io.fallback
        /\ ~io.fallback => io.removeSaved
        /\ ~io.removeSaved => io.addSaved
        /\ io.addSaved => io.readdSaved
        /\ (io.removeSaved /\ io.addSaved) => io.restored}

MoveResult(err, step, m, fs) ==
    [err |-> err, step |-> step, m |-> m, fs |-> fs]

(* the rollback: os.Rename(dstDspDir, srcDspDir), a warning when it fails *)
Restore(fs, src, dst, io) ==
    IF io.restored /\ fs[src] = "none" THEN Rename(fs, dst, src) ELSE fs

(* moveRepository; m is repos.yaml, which is also the Manager the command  *)
(* loaded; the result holds repos.yaml and the directories afterwards      *)
moveRepository(m, fs, repoArg, newPath, io) ==
    LET got == GetRepository(m, MoveCwd, repoArg)
        currentRepo == got.repo
        src == currentRepo.Path
        dst == AbsPath(MoveCwd, newPath)
        \* os.Rename(tempDspDir, dstDspDir), else copyDir and RemoveAll
        moved == IF io.renamed /\ fs[dst] = "none"
                 THEN [fs EXCEPT ![dst] = fs[src]]
                 ELSE Rename(fs, src, dst)
        removed == RemoveRepository(m, MoveCwd, src).m
        closed == closeRepositoryTracking(moved, src)
        added == AddRepository(removed, closed, dst, currentRepo.Name,
                               currentRepo.IsDefault, io.addSaved)
        back == Restore(added.fs, src, dst, io)
        readded == AddRepository(added.m, back, src, currentRepo.Name,
                                 currentRepo.IsDefault, io.readdSaved)
    IN  IF got.err # "nil"
        THEN MoveResult("failed to get repository", "check", m, fs)
        ELSE IF src = dst
        THEN MoveResult("repository is already at", "check", m, fs)
        ELSE IF Registered(m, dst)
        THEN MoveResult("destination is already registered", "check", m, fs)
        ELSE IF ~Complete(fs[src])
        THEN MoveResult("failed to read repository config", "check", m, fs)
        ELSE IF ~io.copied
        THEN MoveResult("failed to copy DSP directory", "copy", m, fs)
        ELSE IF ~(io.renamed /\ fs[dst] = "none") /\ ~io.fallback
        THEN MoveResult("failed to move DSP directory to final location",
                        "rename", m, [fs EXCEPT ![dst] = "partial"])
        ELSE IF ~io.removeSaved
        THEN MoveResult("failed to update repository registration",
                        "remove", m, Restore(moved, src, dst, io))
        ELSE IF added.err # "nil"
        THEN MoveResult("failed to register repository at new location",
                        "add",
                        IF readded.err = "nil" THEN readded.m ELSE removed,
                        readded.fs)
        ELSE MoveResult("nil", "done", added.m, added.fs)

NoMove == [op |-> "none", err |-> "nil", step |-> "none",
           repo |-> NoRepository, dst |-> "",
           m |-> [Repos |-> << >>, DefaultRepo |-> "", WorkingRepo |-> ""],
           fs |-> [d \in RepoRoots |-> "none"]]

(* what the commands on the registry and the directories do not touch *)
outsideMove ==
    <<exportVars, now, importVars, bundleVars, snapshotVars, cs, trk, ks>>

(* no repository yet *)
InitMove ==
    /\ ExportOff /\ now = 0 /\ imp = Off /\ hosts = Off /\ bun = Off
    /\ snap = Off /\ cs = Off /\ trk = Off /\ ks = Off
    /\ rp = [m |-> [Repos |-> << >>, DefaultRepo |-> "", WorkingRepo |-> ""],
             fs |-> [d \in RepoRoots |-> "none"],
             last |-> NoMove]

(* "dsp init" in a root: the metadata directory is written (tracking.yaml  *)
(* anew) and the root is registered, unless it is registered already       *)
initRoot ==
    /\ \E path \in RepoRoots, name \in MoveNames, isDefault \in BOOLEAN :
          rp' = [m |-> InitializeRepository(rp.m, path, name, isDefault).m,
                 fs |-> [rp.fs EXCEPT ![path] = "open"],
                 last |-> NoMove]
    /\ UNCHANGED outsideMove

(* "dsp use" *)
useRoot ==
    /\ \E repoArg \in MoveNames :
          rp' = [rp EXCEPT !.m = SetWorkingRepo(rp.m, MoveCwd, repoArg).m,
                           !.last = NoMove]
    /\ UNCHANGED outsideMove

(* "dsp repo remove": off the registry, tracking state closed *)
removeRoot ==
    /\ \E repoArg \in MoveNames :
          LET i == FindRepo(rp.m, MoveCwd, repoArg)
          IN  /\ i # 0
              /\ rp' = [m |-> RemoveRepository(rp.m, MoveCwd, repoArg).m,
                        fs |-> closeRepositoryTracking(rp.fs,
                                                       rp.m.Repos[i].Path),
                        last |-> NoMove]
    /\ UNCHANGED outsideMove

(* "dsp repo move <repo> <new path>", confirmed by the user *)
moveCommand ==
    /\ \E repoArg \in MoveNames, newPath \in RepoRoots, io \in MoveFaults :
          LET r == moveRepository(rp.m, rp.fs, repoArg, newPath, io)
          IN  rp' = [m |-> r.m, fs |-> r.fs,
                     last |-> [op |-> "move", err |-> r.err,
                               step |-> r.step,
                               repo |-> GetRepository(rp.m, MoveCwd,
                                                      repoArg).repo,
                               dst |-> newPath,
                               m |-> rp.m, fs |-> rp.fs]]
    /\ UNCHANGED outsideMove

NextMove ==
    \/ initRoot
    \/ useRoot
    \/ removeRoot
    \/ moveCommand

SpecMove == InitMove /\ [][NextMove]_vars

(* ======================================================================== *)
(* The export server's mutexes (internal/commands/exportcmd/export.go)      *)
(*                                                                          *)
(* A handler goroutine is the sequence of the operations it performs on    *)
(* the two mutexes (s.mu, s.auth.mu) and on the shared fields, along one   *)
(* path through its code.  Which path a request takes depends on its       *)
(* headers and on the values it reads; the values are those of the model   *)
(* above and are left out here: a request is served along any path of its  *)
(* handler.  reqs[g] is goroutine g: its path, the operation it is at and  *)
(* the mutexes it holds.                                                   *)
(* ======================================================================== *)
MaxHandlers == 2   \* number of handler goroutines in one run

Mutexes == {"s.mu", "s.auth.mu"}

Fields == {"downloads", "Downloaded", "Tokens", "TokenPool", "exportInfo"}

(* the mutex the code takes around its writes of a field: s.mu at lines    *)
(* 327, 334 and 658, s.auth.mu at lines 416, 726, 729 and 762              *)
Guard(field) ==
    IF field \in {"Tokens", "TokenPool"} THEN "s.auth.mu" ELSE "s.mu"

Op(op, what, line) == [op |-> op, what |-> what, line |-> line]

(* authenticateRequest: the password is compared, or the user is looked    *)
(* up in s.auth.Users (never written) and marked in s.auth.Downloaded      *)
authenticateRequestOps(method) ==
    IF method = "user" THEN << Op("Write", "Downloaded", 546) >> ELSE << >>

(* verifyToken: all of it between Lock and the deferred Unlock *)
verifyTokenOps(valid) ==
    << Op("Lock", "s.auth.mu", 742), Op("Read", "Tokens", 745) >>
    \o (IF valid THEN << Op("Write", "Tokens", 762) >> ELSE << >>)
    \o << Op("Unlock", "s.auth.mu", 743) >>

(* assignToken: the client's token is found in the map, or the pool is     *)
(* empty, or a token is moved from the pool to the map                     *)
assignTokenOps(outcome) ==
    << Op("Lock", "s.auth.mu", 709), Op("Read", "Tokens", 713) >>
    \o (IF outcome = "found" THEN << >>
        ELSE << Op("Read", "TokenPool", 720) >>)
    \o (IF outcome = "assigned"
        THEN << Op("Write", "TokenPool", 726), Op("Write", "Tokens", 729) >>
        ELSE << >>)
    \o << Op("Unlock", "s.auth.mu", 710) >>

(* "Check download limits" *)
checkLimitOps(reached) ==
    << Op("Lock", "s.mu", 320), Op("Read", "downloads", 321) >>
    \o (IF reached THEN << Op("Unlock", "s.mu", 322) >>
        ELSE << Op("Write", "downloads", 327), Op("Unlock", "s.mu", 328) >>)

markDownloadedOps ==
    << Op("Lock", "s.mu", 333), Op("Write", "Downloaded", 334),
       Op("Unlock", "s.mu", 335) >>

(* "Create multiple recipients for each token": the pool is ranged over;   *)
(* when it is not empty the map is read for its first token                *)
recipientsOps(empty) ==
    << Op("Read", "TokenPool", 366) >>
    \o (IF empty THEN << >> ELSE << Op("Read", "Tokens", 367) >>)

markUsedOps ==
    << Op("Lock", "s.auth.mu", 414), Op("Write", "Tokens", 416),
       Op("Unlock", "s.auth.mu", 418) >>

(* "Check if we should shutdown" *)
checkShutdownOps(method) ==
    << Op("Lock", "s.mu", 441),
       IF method = "user" THEN Op("Read", "Downloaded", 447)
                          ELSE Op("Read", "downloads", 455),
       Op("Unlock", "s.mu", 442) >>

(* the paths through handleDownload: 401 at authentication, 401 at the     *)
(* token, 403 at the limit, 404 or 500 at the bundle file, 500 or a panic  *)
(* at the recipients, and the download served                              *)
handleDownloadPaths(method) ==
    LET auth == authenticateRequestOps(method)
        checked == IF method = "password" THEN auth \o verifyTokenOps(TRUE)
                                           ELSE auth
        counted == checked \o checkLimitOps(FALSE)
                   \o (IF method = "user" THEN markDownloadedOps ELSE << >>)
    IN
    { << >>, checked \o checkLimitOps(TRUE), counted }
    \cup (IF method = "password"
          THEN { auth \o verifyTokenOps(FALSE),
                 counted \o recipientsOps(TRUE),
                 counted \o recipientsOps(FALSE),
                 counted \o recipientsOps(FALSE) \o markUsedOps
                    \o checkShutdownOps(method) }
          ELSE { counted \o checkShutdownOps(method) })

(* the paths through handleStatus: 401, 403 without a token, the status *)
handleStatusPaths(method) ==
    IF method = "user"
    THEN { << >>,
           authenticateRequestOps(method)
              \o << Op("Lock", "s.mu", 486), Op("Read", "downloads", 499),
                    Op("Read", "Downloaded", 506),
                    Op("Unlock", "s.mu", 487) >> }
    ELSE { << >>, assignTokenOps("none") }
         \cup { assignTokenOps(outcome)
                   \o << Op("Lock", "s.mu", 486),
                         Op("Read", "downloads", 499),
                         Op("Read", "Tokens", 513),
                         Op("Unlock", "s.mu", 487) >> :
                  outcome \in {"found", "assigned"} }

(* the paths through handleKeyExchange: 405 or 401, an error of the host   *)
(* or recipient registry, the keys exchanged                               *)
handleKeyExchangePaths(method) ==
    { << >>, authenticateRequestOps(method),
      authenticateRequestOps(method)
         \o << Op("Lock", "s.mu", 657), Op("Write", "exportInfo", 658),
               Op("Unlock", "s.mu", 663) >> }

HandlerPaths(method) ==
    handleDownloadPaths(method) \cup handleStatusPaths(method)
    \cup handleKeyExchangePaths(method)

NewHandler(path) == [path |-> path, pc |-> 1, holds |-> {}]

Goroutines == DOMAIN reqs

Returned32(g) == reqs[g].pc > Len(reqs[g].path)

NextOp(g) == reqs[g].path[reqs[g].pc]

At(g, ops) == ~Returned32(g) /\ NextOp(g).op \in ops

Held(mutex) == \E g \in Goroutines : mutex \in reqs[g].holds

Advance(g, holds) ==
    reqs' = [reqs EXCEPT ![g].pc = @ + 1, ![g].holds = holds]

(* what the handlers of the export server do not touch in this view *)
outsideLocks ==
    <<Method, Users, maxDownloads, downloads, Tokens, TokenPool, Downloaded,
      done, exited, keyExchanged, bundleFile, now, others>>

InitLocks ==
    /\ Method \in {"password", "user"}
    /\ Users = IF Method = "user" THEN AllUsers ELSE {}
    /\ maxDownloads = 0 /\ downloads = 0 /\ Tokens = << >>
    /\ TokenPool = << >> /\ Downloaded = {} /\ done = FALSE
    /\ exited = FALSE /\ keyExchanged = FALSE /\ bundleFile = "ok"
    /\ reqs = << >>
    /\ now = 0
    /\ imp = Off /\ hosts = Off /\ bun = Off /\ snap = Off /\ RepoOff

(* net/http starts a goroutine for the request *)
serveHTTP ==
    /\ Len(reqs) < MaxHandlers
    /\ \E path \in HandlerPaths(Method) : reqs' = Append(reqs, NewHandler(path))
    /\ UNCHANGED outsideLocks

(* sync.Mutex.Lock: blocks while the mutex is held *)
mutexLock(g) ==
    /\ At(g, {"Lock"})
    /\ ~Held(NextOp(g).what)
    /\ Advance(g, reqs[g].holds \cup {NextOp(g).what})
    /\ UNCHANGED outsideLocks

mutexUnlock(g) ==
    /\ At(g, {"Unlock"})
    /\ Advance(g, reqs[g].holds \ {NextOp(g).what})
    /\ UNCHANGED outsideLocks

(* a read or a write of a shared field *)
access(g) ==
    /\ At(g, {"Read", "Write"})
    /\ Advance(g, reqs[g].holds)
    /\ UNCHANGED outsideLocks

NextLocks ==
    \/ serveHTTP
    \/ \E g \in Goroutines : mutexLock(g)
    \/ \E g \in Goroutines : mutexUnlock(g)
    \/ \E g \in Goroutines : access(g)

SpecLocks == InitLocks /\ [][NextLocks]_vars

(* ======================================================================== *)
(* The key exchange and the host registries (exportcmd/export.go            *)
(* handleKeyExchange, importcmd/import.go performKeyExchange,               *)
(* internal/host/host.go)                                                   *)
(*                                                                          *)
(* hosts.exporter and hosts.importer are the host registries of the two    *)
(* machines (~/.dsp-global/hosts/<name>.json), name -> Host.  imp is the   *)
(* run of performKeyExchange on the importer, with a record of the last    *)
(* request the exporter's handler served.  The exporter names its peer by  *)
(* the address of the connection, the importer by its --host flag.         *)
(* ======================================================================== *)
MaxExchanges == 2  \* key exchanges per side in one run

ZeroTime == 0      \* time.Time{}, for which IsZero() holds
FirstTime == 1     \* the wall clock when the model starts

ImporterIP == "10.0.0.2"
ImporterKeys == {"age1imp", "ssh-rsa"}
ExporterKey == "age1exp"
OldKey == "age1old"

HasAge1Prefix(publicKey) == publicKey \in {"age1imp", "age1exp", "age1old"}

NewHost(name, publicKey, addedAt) ==
    [Name |-> name, PublicKey |-> publicKey, AddedAt |-> addedAt]

NoHost == NewHost("", "", ZeroTime)

HostResult(err, registry) == [err |-> err, registry |-> registry]

(* Manager.saveHost and m.hosts[host.Name] = host *)
PutHost(registry, host) ==
    [n \in DOMAIN registry \cup {host.Name} |->
        IF n = host.Name THEN host ELSE registry[n]]

(* Manager.GetHost *)
GetHost(registry, name) ==
    IF name \in DOMAIN registry THEN registry[name] ELSE NoHost

(* Manager.AddHost; saved says whether os.WriteFile worked *)
AddHost(registry, host, saved) ==
    IF host.Name \in DOMAIN registry
    THEN HostResult("host already exists", registry)
    ELSE IF ~saved THEN HostResult("failed to write host file", registry)
    ELSE HostResult("nil", PutHost(registry, [host EXCEPT !.AddedAt = now]))

(* Manager.UpdateHost *)
UpdateHost(registry, host, saved) ==
    IF host.Name \notin DOMAIN registry
    THEN HostResult("host does not exist", registry)
    ELSE IF ~saved THEN HostResult("failed to write host file", registry)
    ELSE HostResult("nil", PutHost(registry, host))

(* the registries found on disk: empty, or the peer known with an old key *)
Registries(name) ==
    { << >>, [n \in {name} |-> NewHost(name, OldKey, FirstTime)] }

NoExchange == [status |-> NoReply, PublicKey |-> ""]

(* the answers to POST /key-exchange that the importer can get: no answer, *)
(* a status that is not 200, or 200 with the exporter's public key         *)
KeyExchangeReplies ==
    { NoExchange, [status |-> 401, PublicKey |-> ""],
      [status |-> 200, PublicKey |-> ExporterKey] }

NoServed == [count |-> 0, status |-> NoReply, key |-> "", before |-> << >>]

(* what the key exchange does not touch *)
outsideKeyExchange ==
    <<exportVars, bundleVars, snapshotVars, repoVars>>

InitKeyExchange ==
    /\ ExportOff /\ bun = Off /\ snap = Off /\ RepoOff
    /\ now = FirstTime
    /\ \E e \in Registries(ImporterIP), i \in Registries(HostArg) :
          hosts = [exporter |-> e, importer |-> i]
    /\ imp = [pc |-> "idle", run |-> 0, key |-> "", existingHost |-> NoHost,
              reply |-> NoExchange, io |-> TRUE, err |-> "",
              before |-> << >>, served |-> NoServed]

(* handleKeyExchange for an authorized POST from ImporterIP: the host       *)
(* entry of the caller is added or updated, the caller becomes a recipient, *)
(* and the exporter's key is the answer                                     *)
keyExchangeRequest ==
    /\ imp.served.count < MaxExchanges
    /\ \E publicKey \in ImporterKeys, saved \in BOOLEAN,
          recipient \in BOOLEAN :
         LET registry == hosts.exporter
             existingHost == GetHost(registry, ImporterIP)
             r == IF ImporterIP \notin DOMAIN registry
                  THEN AddHost(registry,
                               NewHost(ImporterIP, publicKey, now), saved)
                  ELSE UpdateHost(registry,
                                  [existingHost EXCEPT
                                      !.PublicKey = publicKey], saved)
             status == IF ~HasAge1Prefix(publicKey) THEN 400
                       ELSE IF r.err # "nil" \/ ~recipient THEN 500
                       ELSE 200
         IN  /\ hosts' = [hosts EXCEPT !.exporter =
                             IF HasAge1Prefix(publicKey) THEN r.registry
                             ELSE @]
             /\ imp' = [imp EXCEPT !.served =
                           [count |-> @.count + 1, status |-> status,
                            key |-> publicKey, before |-> registry]]
    /\ UNCHANGED <<outsideKeyExchange, now>>

(* performKeyExchange up to client.Do: the key manager and the host        *)
(* manager are loaded, the entry of the --host name is looked up or made   *)
sendKeyExchange ==
    /\ imp.pc \in {"idle", "done"}
    /\ imp.run < MaxExchanges
    /\ imp' = [imp EXCEPT
                 !.pc = "sent", !.run = @ + 1, !.key = "age1imp",
                 !.existingHost =
                     IF HostArg \in DOMAIN hosts.importer
                     THEN hosts.importer[HostArg]
                     ELSE NewHost(HostArg, "", now),
                 !.reply = NoExchange, !.io = TRUE, !.err = "",
                 !.before = hosts.importer]
    /\ UNCHANGED <<outsideKeyExchange, now, hosts>>

(* performKeyExchange from the answer on: "Update host information",       *)
(* "Save host information", "Add exporter as a recipient"                  *)
receiveKeyExchange ==
    /\ imp.pc = "sent"
    /\ \E reply \in KeyExchangeReplies, saved \in BOOLEAN,
          recipient \in BOOLEAN :
         LET host == [imp.existingHost EXCEPT !.PublicKey = reply.PublicKey]
             r == IF host.AddedAt = ZeroTime
                  THEN AddHost(hosts.importer, host, saved)
                  ELSE UpdateHost(hosts.importer, host, saved)
             err == IF reply.status = NoReply
                    THEN "failed to send key exchange request"
                    ELSE IF reply.status # 200 THEN "key exchange failed"
                    ELSE IF r.err # "nil" THEN r.err
                    ELSE IF ~recipient
                    THEN "failed to add exporter as recipient"
                    ELSE "nil"
         IN  /\ hosts' = [hosts EXCEPT !.importer =
                             IF reply.status = 200 THEN r.registry ELSE @]
             /\ imp' = [imp EXCEPT !.pc = "done", !.reply = reply,
                                   !.io = (saved /\ recipient), !.err = err,
                                   !.existingHost = host]
    /\ UNCHANGED <<outsideKeyExchange, now>>

NextKeyExchange ==
    \/ keyExchangeRequest
    \/ sendKeyExchange
    \/ receiveKeyExchange

SpecKeyExchange == InitKeyExchange /\ [][NextKeyExchange]_vars

(* ======================================================================== *)
(* Properties                                                               *)
(* ======================================================================== *)
NumReq(S) == BagCardinality([q \in S |-> reqs[q]])

Used(t) == t \in DOMAIN Tokens /\ Tokens[t].Used

UsedTokens == {t \in TokenId : Used(t)}

Quiescent == \A q \in Requests : q.pc = "done"

PassedWith(t) == {q \in Requests : q.kind = "download" /\ q.tok = t /\ q.passed}

Served == {q \in Requests : q.kind = "download" /\ q.resp = 200}

(* C1: in password mode the number of tokens marked used never exceeds     *)
(* max_downloads, and whenever a token becomes used, the step is the token *)
(* verification of a /download request that carries the token and comes    *)
(* from the address the token is assigned to, at a time at which the token *)
(* has not expired (the clock does not exceed its expiry).                 *)
ConsumedBy(t, q) ==
    /\ q.kind = "download" /\ q.pc = "verify" /\ q.tok = t
    /\ t \in DOMAIN Tokens
    /\ Tokens[t].ClientIP = q.ip
    /\ now <= Tokens[t].Expiry
    /\ reqs' = (reqs (-) One(q)) (+) One([q EXCEPT !.pc = "limit",
                                                  !.passed = TRUE])

C1_TokenLinearity ==
    /\ [](Method = "password" => Cardinality(UsedTokens) <= maxDownloads)
    /\ [][\A t \in TokenId :
            (~Used(t) /\ Used(t)') => \E q \in Requests : ConsumedBy(t, q)]_vars

C1_Witness ==
    /\ Method = "password" /\ maxDownloads = 1
    /\ Used(1) /\ PassedWith(1) # {}
    /\ \E q \in Requests : q.kind = "download" /\ q.tok = 1 /\ q.pw
                           /\ q.ip # Tokens[1].ClientIP /\ q.resp = 401

(* C2: at most one /download request ever passes token verification with a *)
(* given token; a token is used exactly when one request has passed with   *)
(* it; every other /download that carries it with the right password is    *)
(* answered 401 by the verification.                                       *)
C2_AtMostOnce ==
    \A t \in TokenId :
        /\ NumReq(PassedWith(t)) <= 1
        /\ Used(t) <=> NumReq(PassedWith(t)) = 1
        /\ \A q \in Requests :
             (q.kind = "download" /\ q.pw /\ q.tok = t /\ ~q.passed
              /\ q.pc # "verify") => q.resp = 401 /\ q.pc = "done"

C2_Witness ==
    \E q1, q2 \in Requests :
        /\ q1.kind = "download" /\ q2.kind = "download"
        /\ q1.tok = q2.tok /\ q1.ip = q2.ip
        /\ q1.tok \in DOMAIN Tokens /\ Tokens[q1.tok].ClientIP = q1.ip
        /\ q1.passed /\ ~q2.passed /\ q2.resp = 401

(* C3: with max_downloads = N > 0 the download counter never exceeds N and *)
(* at most N /download requests are served; a /download request that has   *)
(* found downloads >= N in one of its two limit tests, under the server    *)
(* mutex, has shut the server down or does so as its next statement; no    *)
(* /download request that arrives after such an observation is counted or  *)
(* served, it is answered 401 or 403.                                      *)
C3_DownloadLimit ==
    maxDownloads > 0 =>
        /\ downloads <= maxDownloads
        /\ NumReq(Served) <= maxDownloads
        /\ \A q \in Requests : q.observed => (done \/ q.pc = "shutdown")
        /\ \A q \in Requests :
             (q.kind = "download" /\ q.late) =>
                 /\ ~q.counted /\ q.resp # 200
                 /\ q.pc = "done" => q.resp \in {401, 403}

C3_Witness ==
    /\ maxDownloads > 0 /\ downloads = maxDownloads /\ done
    /\ \E q \in Requests : q.observed /\ ~q.late
    /\ \E q \in Requests : q.kind = "download" /\ q.late /\ q.resp = 403

(* C4 (as claimed): a /download that ends in an error response (403, 404   *)
(* or 500) has neither marked its token used nor incremented the download  *)
(* counter.                                                                *)
C4_ErrorLeavesNoTrace ==
    \A q \in Requests :
        (Method = "password" /\ q.kind = "download" /\ q.pc = "done"
         /\ q.resp \in {403, 404, 500})
            => ~q.passed /\ ~q.counted

(* C5 (as claimed): in password mode a /download with a valid token from   *)
(* its assigned address, the bundle being in order, is answered with a     *)
(* ciphertext whose recipients include password || token of the presented  *)
(* token and of every other assigned token that is unused at that moment.  *)
Outstanding == {t \in DOMAIN Tokens : ~Tokens[t].Used}

C5_RecipientsCoverTokens ==
    \A q \in Requests :
        (Method = "password" /\ q.kind = "download" /\ q.passed
         /\ bundleFile = "ok" /\ q.pc \in {"markused", "final", "done"})
            => /\ q.resp = 200
               /\ q.tok \in q.recips
               /\ q.pc = "markused" => Outstanding \subseteq q.recips

(* C6 (as claimed): in password mode, once the download counter has        *)
(* reached max_downloads and no handler is running any more, the server    *)
(* has initiated shutdown: no further request is needed.                   *)
C6_ShutdownAtLimit ==
    (Method = "password" /\ maxDownloads > 0 /\ downloads >= maxDownloads
     /\ Quiescent) => done

(* C7 (as claimed): in user mode, when the server has initiated shutdown   *)
(* without the download limit having been hit, every named user has made   *)
(* a /download request (one still in progress is taken as a download       *)
(* here); /status and /key-exchange requests do not count.                 *)
HasDownloaded(user) ==
    \E q \in Requests : q.kind = "download" /\ q.user = user

C7_ShutdownWhenAllDownloaded ==
    (Method = "user" /\ done /\ ~limitObserved) =>
        \A user \in Users : HasDownloaded(user)

(* C8 (as claimed): once the server-wide timeout has elapsed since the     *)
(* start of the server, the server shuts down.                             *)
C8_TimeoutShutsDown == (now >= Timeout) ~> done

(* C9 (as claimed): with max_downloads = N, when each of the N tokens has  *)
(* been presented in time by a /download from its own address and all      *)
(* requests have finished, all N downloads were served, the counter is N   *)
(* and the server has initiated shutdown.                                  *)
AllTokensPresented ==
    /\ Method = "password" /\ maxDownloads > 0 /\ bundleFile = "ok"
    /\ \A t \in 1..maxDownloads : PassedWith(t) # {}
    /\ Quiescent

C9_AllDownloadsServed ==
    AllTokensPresented =>
        /\ \A t \in 1..maxDownloads : \A q \in PassedWith(t) : q.resp = 200
        /\ downloads = maxDownloads
        /\ done

(* C10: when M > N = max_downloads /status requests with the right         *)
(* password from M distinct addresses are the requests of a run and all    *)
(* have been answered, exactly N of them received a token, the tokens      *)
(* received are distinct, and the other M - N were answered 403.           *)
StatusOnly ==
    /\ Method = "password"
    /\ \A q \in Requests : q.kind = "status" /\ q.pw /\ q.pc = "done"
    /\ \A q \in Requests : reqs[q] = 1
    /\ \A q1, q2 \in Requests : q1 # q2 => q1.ip # q2.ip
    /\ BagCardinality(reqs) > maxDownloads

Received == {q \in Requests : q.resp = 200 /\ q.got # BogusToken}

Stepped(q) == CopiesIn(q, reqs') < CopiesIn(q, reqs)

AnsweredWith(code) ==
    \E q2 \in BagToSet(reqs') :
        CopiesIn(q2, reqs') > CopiesIn(q2, reqs) /\ q2.resp = code

TokenRejected(q) ==
    q.pc = "verify" /\ verifyError(q.tok, q.ip) # "nil"

NoTokenAvailable(q) ==
    q.pc = "assign" /\ clientTokens(q.ip) = {} /\ Len(TokenPool) = 0

LimitRejected(q) == q.pc = "limit" /\ limitReached

BundleNotFound(q) ==
    /\ bundleFile = "missing"
    /\ \/ q.pc = "limit" /\ ~limitReached /\ Method = "password"
       \/ q.pc = "markuser"

Unauthorized(q) ==
    /\ ~(q.kind = "key-exchange" /\ q.httpMethod # "POST")
    /\ IF Method = "password" THEN ~q.pw ELSE q.user \notin Users

C11_RejectionStatus ==
    /\ [](\A q \in Requests : Unauthorized(q) => q.resp = 401 /\ q.pc = "done")
    /\ [][\A q \in Requests : Stepped(q) =>
             /\ TokenRejected(q) => AnsweredWith(401)
             /\ NoTokenAvailable(q) => AnsweredWith(403)
             /\ LimitRejected(q) => AnsweredWith(403)
             /\ BundleNotFound(q) => AnsweredWith(404)]_vars

C11_Witness ==
    /\ \E q \in Requests : /\ q.kind = "download" /\ q.pw /\ q.resp = 401
                           /\ q.tok \in DOMAIN Tokens
                           /\ Tokens[q.tok].ClientIP # q.ip
    /\ \E q \in Requests : q.kind = "status" /\ q.pw /\ q.resp = 403

(* C12 (as claimed): every ExportInfo the importer accepts, and then uses   *)
(* for /download, carries a signature that verifies under the exporter's   *)
(* key; one with a missing or invalid signature is rejected before a       *)
(* download request is sent.                                               *)
Accepted == imp.pc \in {"exchange", "download", "downloaded", "imported"}

C12_SignatureVerified == Accepted => imp.info.Signature = "valid"

(* C13 (as claimed): no bundle is stored when the certificate of the       *)
(* /download connection has a fingerprint different from the one pinned    *)
(* for the host or, nothing being pinned, from ExportInfo.cert_fingerprint *)
BundleStored == imp.pc \in {"downloaded", "imported"}

C13_CertificatePinned ==
    BundleStored =>
        imp.cert.fp = IF imp.pinned # NoCertInfo
                      THEN imp.pinned.Fingerprint
                      ELSE imp.info.CertFingerprint

(* C14 (as claimed): after a successful import from a host whose server    *)
(* presented certificate C1 the registry holds C1's fingerprint and        *)
(* validity for that host, and no later import from the host stores a      *)
(* bundle over a different certificate whose valid_to is earlier.          *)
ImportsFrom(host) == {e \in imp.log : e.host = host}

C14_PinnedAfterImport ==
    \A e \in imp.log :
        /\ Cardinality(ImportsFrom(e.host)) = 1 =>
              hosts[e.host] = UpdateCertificate(e.cert.fp, e.cert.notAfter)
        /\ ~(/\ BundleStored /\ imp.info.Host = e.host
             /\ imp.cert.fp # e.cert.fp
             /\ imp.cert.notAfter < e.cert.notAfter)

(* C15 (as claimed): an import with the right password from an honest      *)
(* password-mode export server that has a token for the importer accepts   *)
(* the /status response, is served its /download and ends with the bundle  *)
(* stored in the new repository and its tracked paths applied: such a run  *)
(* does not end in an error, unless the importer's own file system fails.  *)
FileSystemErrors ==
    {"failed to save bundle", "failed to initialize repository"}

C15_HonestImportCompletes ==
    (imp.peer = "honest" /\ imp.pc = "failed") =>
        imp.err \in FileSystemErrors

(* C16 (as claimed): in a bundle derived from snapshots S and T the paths  *)
(* of the add changes are paths(T) \ paths(S), those of the modify changes *)
(* the paths in both whose hashes differ, those of the delete changes      *)
(* paths(S) \ paths(T), and no path is in more than one change; an initial *)
(* bundle has exactly one add per path of T.                               *)
Bundled == bun.pc \in {"new", "saved", "loaded"}

ChangePaths(type) ==
    {bun.bundle.Changes[i].Path :
        i \in {j \in DOMAIN bun.bundle.Changes :
                  bun.bundle.Changes[j].Type = type}}

C16_ChangesAreTheDiff ==
    Bundled =>
        LET S == FileMap(bun.source)
            T == FileMap(bun.target)
            changes == bun.bundle.Changes
        IN  /\ ChangePaths("add") = DOMAIN T \ DOMAIN S
            /\ ChangePaths("modify") =
                  {p \in DOMAIN S \cap DOMAIN T : S[p].Hash # T[p].Hash}
            /\ ChangePaths("delete") = DOMAIN S \ DOMAIN T
            /\ \A i, j \in DOMAIN changes :
                  i # j => changes[i].Path # changes[j].Path
            /\ bun.initial => Len(changes) = Cardinality(DOMAIN T)

(* C17 (as claimed): Load of the archive that Save wrote for a bundle B of *)
(* New returns a bundle equal to B: the same metadata, the same set of     *)
(* changes and the same file contents.                                     *)
Metadata(b) ==
    <<b.ID, b.CreatedBy, b.IsInitial, b.SourceSnapshot, b.TargetSnapshot>>

SameBundle(b1, b2) ==
    /\ Metadata(b1) = Metadata(b2)
    /\ Range(b1.Changes) = Range(b2.Changes)
    /\ b1.FileContents = b2.FileContents

LoadedFromSave == bun.pc = "loaded" /\ bun.origin = "Save"

C17_SaveLoadRoundTrip ==
    LoadedFromSave => bun.err = "nil" /\ SameBundle(bun.loaded, bun.bundle)

(* C18 (as claimed): an initial bundle (no source snapshot, every target   *)
(* file an add) passes verification, and Load of the archive that Save     *)
(* wrote for it is accepted and yields the content of every added file.    *)
InitialBundle ==
    /\ Bundled /\ bun.bundle.IsInitial
    /\ bun.bundle.CreatedBy # "" /\ Len(bun.bundle.Changes) > 0

C18_InitialBundleLoads ==
    InitialBundle =>
        /\ Verify(bun.bundle) = "nil"
        /\ LoadedFromSave =>
              /\ bun.err = "nil"
              /\ \A i \in DOMAIN bun.bundle.Changes :
                    LET path == bun.bundle.Changes[i].Path
                    IN  /\ path \in DOMAIN bun.loaded.FileContents
                        /\ bun.loaded.FileContents[path]
                              = Compress(bun.disk[path])

(* C19 (as claimed): Load returns an error for every archive in which some *)
(* add or modify change has no contents/<content_hash> entry or has one    *)
(* whose digest differs from the content hash.                             *)
Unbacked(zip, b) ==
    \E i \in Carried(b.Changes) :
        LET name == <<"contents", b.Changes[i].ContentHash>>
        IN  \/ name \notin DOMAIN zip
            \/ HashBytes(zip[name]) # b.Changes[i].ContentHash

C19_LoadRejectsUnbacked ==
    (/\ bun.pc = "loaded"
     /\ MetadataName \in DOMAIN bun.archive
     /\ Unbacked(bun.archive, Unmarshal(bun.archive[MetadataName])))
        => bun.err # "nil"

(* C20: the snapshot of a tracked directory has a file record for exactly  *)
(* the non-directory entries under it whose path relative to the tracked   *)
(* root matches no exclude pattern and that lie beneath no directory whose *)
(* relative path matches one; nothing beneath a matching directory is      *)
(* visited.                                                                *)
EntriesOf(tree) ==
    {<<n>> : n \in {m \in Range(Names) : tree[m].kind # "none"}}
        \cup UNION {{<<n, k>> : k \in tree[n].kids} : n \in Range(Names)}

BeneathMatched(excludes, entry) ==
    \E k \in 1..(Len(entry) - 1) : Matched(excludes, SubSeq(entry, 1, k))

Kept(tree, excludes) ==
    {e \in EntriesOf(tree) :
        /\ ~IsDir(tree, e)
        /\ ~Matched(excludes, e)
        /\ ~BeneathMatched(excludes, e)}

IOError(r) ==
    \/ r.root = "denied"
    \/ r.root = "file" /\ r.fault.kind = "hash"
    \/ /\ r.root = "dir" /\ r.fault # NoFault
       /\ r.fault.entry \in EntriesOf(r.tree)
       /\ ~BeneathMatched(r.excludes, r.fault.entry)
       /\ \/ r.fault.kind = "walk"
          \/ /\ ~IsDir(r.tree, r.fault.entry)
             /\ ~Matched(r.excludes, r.fault.entry)

RecordsOf(r) ==
    IF r.root = "file" THEN {NewFile(r.path)}
    ELSE IF r.root = "dir"
    THEN {NewFile(FilePath(r.path, e)) : e \in Kept(r.tree, r.excludes)}
    ELSE {}

C21_MissingSkippedErrorsAbort ==
    /\ cs.created = "snapshot" =>
          /\ Len(cs.seen) = Len(cs.paths)
          /\ \A i \in DOMAIN cs.seen : ~IOError(cs.seen[i])
          /\ Range(cs.Files) = UNION {RecordsOf(cs.seen[i]) : i \in DOMAIN cs.seen}
    /\ cs.created = "error" =>
          /\ IOError(cs.seen[Len(cs.seen)])
          /\ cs.pc = "returned" /\ cs.ret = "failed to create snapshot"
          /\ cs.Files = << >>
          /\ cs.store[cs.stamp].state # "written"
                \/ cs.store[cs.stamp].ID # cs.ID

(* a snapshot returned although one tracked root is missing, with the      *)
(* records of the other root                                               *)
C21_Witness ==
    /\ cs.created = "snapshot"
    /\ \E i \in DOMAIN cs.seen : cs.seen[i].root = "missing"
    /\ \E i \in DOMAIN cs.seen :
          cs.seen[i].root = "dir" /\ RecordsOf(cs.seen[i]) # {}
    /\ cs.Files # << >>

(* C22 (as claimed): any two snapshot operations on a repository write to  *)
(* distinct locations with distinct identifiers, and a snapshot that has   *)
(* been written stays at its location as it was written.                   *)
C22_SnapshotsNeverOverwritten ==
    /\ \A i, j \in DOMAIN cs.log :
          i # j => /\ cs.log[i].stamp # cs.log[j].stamp
                   /\ cs.log[i].ID # cs.log[j].ID
    /\ \A i \in DOMAIN cs.log :
          cs.store[cs.log[i].stamp]
             = MarshalSnapshot(cs.log[i].ID, cs.log[i].Files)

(* C23 (as claimed): when a snapshot operation has failed, the snapshots/  *)
(* subtree is as it was before the operation: no new directory and no      *)
(* partial snapshot.json.                                                  *)
C23_FailedSnapshotLeavesNoTrace ==
    (cs.pc = "returned" /\ cs.ret # "nil") => cs.store = cs.before

(* C24 (as claimed): while the repository's tracking state is closed,      *)
(* every tracking mutation (add path, remove path, add exclude patterns,   *)
(* remove exclude patterns) is rejected and leaves the tracked-path list   *)
(* unchanged.                                                              *)
Mutations == {"add path", "remove path", "add exclude", "remove exclude"}

C24_ClosedRejectsMutations ==
    (trk.op \in Mutations /\ trk.wasClosed) =>
        trk.err # "nil" /\ trk.Paths = trk.before

(* C25: the tracked-path list never holds two entries with the same path,  *)
(* whatever sequence of add-path, remove-path, add-exclude and             *)
(* remove-exclude operations has run; adding a path that is already        *)
(* tracked returns an error and leaves the list unchanged.                 *)
C25_NoDuplicateTrackedPaths ==
    /\ \A i, j \in DOMAIN trk.Paths :
          trk.Paths[i].Path = trk.Paths[j].Path => i = j
    /\ \A i \in DOMAIN trk.Paths, excludes \in {<< >>, <<"*.log">>} :
          LET r == AddTrackedPathWithExcludes(
                      trk.Paths,
                      NewTrackedPath(trk.Paths[i].Path,
                                     StatIsDir(trk.Paths[i].Path), excludes))
          IN  r.err # "nil" /\ r.Paths = trk.Paths

(* "dsp track" has run on paths that were all tracked already: two paths   *)
(* are tracked and the list is what it was                                 *)
C25_Witness ==
    /\ trk.op = "add path" /\ trk.registered /\ ~trk.wasClosed
    /\ trk.err = "nil"
    /\ Len(trk.Paths) = 2 /\ trk.before = trk.Paths

(* C26 (as claimed): GetCurrentRepo resolves the repository in strict      *)
(* precedence: the repository named by a non-empty flag; otherwise the     *)
(* working repository if one is set; otherwise the default repository if   *)
(* one is set; otherwise the current directory if it is a registered root; *)
(* otherwise it fails.  A lower-precedence source is never chosen while a  *)
(* higher-precedence one is set.                                           *)
AtPath(path) ==
    {Found(rp.m.Repos[i]) : i \in {j \in DOMAIN rp.m.Repos :
                                      rp.m.Repos[j].Path = path}}

NamedBy(repoFlag) ==
    {Found(rp.m.Repos[i]) : i \in {j \in DOMAIN rp.m.Repos :
        \/ rp.m.Repos[j].Name = repoFlag
        \/ rp.m.Repos[j].Path = AbsPath(rp.cwd, repoFlag)}}

OrFail(set) == IF set = {} THEN rp.got.err # "nil" ELSE rp.got \in set

C26_CurrentRepoPrecedence ==
    rp.got # NoCall =>
        IF rp.repoFlag # "" THEN OrFail(NamedBy(rp.repoFlag))
        ELSE IF rp.m.WorkingRepo # "" THEN OrFail(AtPath(rp.m.WorkingRepo))
        ELSE IF rp.m.DefaultRepo # "" THEN OrFail(AtPath(rp.m.DefaultRepo))
        ELSE OrFail(AtPath(rp.cwd))

(* C27 (as claimed): no key-store operation (InitializeKeys,               *)
(* GenerateKeyPair, GenerateSigningKeyPair, local certificate generation), *)
(* in any order and any number of times, changes the content of a key file *)
(* that already exists.                                                    *)
C27_ExistingKeysUntouched ==
    \A f \in KeyFiles :
        ks.before[f] # NoKey => ks.files[f] = ks.before[f]

(* C28 (as claimed): adding a recipient whose name is already in the       *)
(* recipient registry is rejected with an error and leaves the registry    *)
(* unchanged, so after any sequence of add-recipient, remove-recipient and *)
(* key-exchange operations no two recipients share a name.                 *)
C28_RecipientNamesUnique ==
    /\ ( /\ ks.op = "AddRecipient"
         /\ \E i \in DOMAIN ks.before : ks.before[i].Name = ks.name )
       => ks.err # "nil" /\ ks.store.Recipients = ks.before
    /\ \A i, j \in DOMAIN ks.store.Recipients :
          ks.store.Recipients[i].Name = ks.store.Recipients[j].Name => i = j

(* C29 (as claimed): if a repository move fails at any step after the copy *)
(* into the temporary directory (rename to destination, registry removal,  *)
(* registry add), the rollback leaves the system as before the move: the   *)
(* metadata subtree is at the source location and not at the destination,  *)
(* and the registry lists the repository at its source path with its       *)
(* original name and default status.                                       *)
C29_MoveRollbackRestores ==
    ( /\ rp.last.op = "move" /\ rp.last.err # "nil"
      /\ rp.last.step \in {"rename", "remove", "add"} )
    => /\ rp.fs[rp.last.repo.Path] = rp.last.fs[rp.last.repo.Path]
       /\ rp.fs[rp.last.dst] = "none"
       /\ \E i \in DOMAIN rp.m.Repos : rp.m.Repos[i] = rp.last.repo
       /\ ~Registered(rp.m, rp.last.dst)

(* C30: each token only ever moves pooled -> assigned(ip, expiry) -> used  *)
(* or expired: a used or expired token is never put back in the pool,      *)
(* never assigned again and never accepted by /download, and a client      *)
(* whose assigned token expired unused (and who holds no other token that  *)
(* is still good) is given a different token, taken from the pool, by its  *)
(* next /status as long as the pool is not empty.                          *)
TokenState(t) ==
    IF t \in Range(TokenPool) THEN "pooled"
    ELSE IF t \notin DOMAIN Tokens THEN "none"
    ELSE IF Tokens[t].Used THEN "used"
    ELSE IF Expired(Tokens[t]) THEN "expired"
    ELSE "assigned"

Lifecycle(from, to) ==
    \/ to = from
    \/ from = "pooled" /\ to = "assigned"
    \/ from = "assigned" /\ to \in {"used", "expired"}

HoldsExpired(ip) ==
    /\ \E t \in DOMAIN Tokens :
          Tokens[t].ClientIP = ip /\ TokenState(t) = "expired"
    /\ \A t \in DOMAIN Tokens :
          Tokens[t].ClientIP = ip => TokenState(t) # "assigned"

Given(q) ==
    {q2 \in BagToSet(reqs') :
        /\ CopiesIn(q2, reqs') > CopiesIn(q2, reqs)
        /\ q2.ip = q.ip /\ q2.kind = q.kind /\ q2.pc = "respond"}

C30_TokenLifecycle ==
    /\ [][\A t \in TokenId : Lifecycle(TokenState(t), TokenState(t)')]_vars
    /\ [][\A q \in Requests :
            (Stepped(q) /\ q.pc = "verify"
               /\ TokenState(q.tok) \in {"used", "expired"})
            => AnsweredWith(401) /\ Tokens' = Tokens]_vars
    /\ [][\A q \in Requests : (Stepped(q) /\ q.pc = "assign") =>
            /\ \A q2 \in Given(q) :
                  /\ TokenState(q2.got) \in {"pooled", "assigned"}
                  /\ TokenState(q2.got)' = "assigned"
                  /\ Tokens'[q2.got].ClientIP = q.ip
            /\ (HoldsExpired(q.ip) /\ Len(TokenPool) > 0) =>
                  /\ Given(q) # {}
                  /\ \A q2 \in Given(q) :
                        /\ TokenState(q2.got) = "pooled"
                        /\ q2.got \notin DOMAIN Tokens]_vars

(* a client's first token has expired unused and a /status of the same     *)
(* client was given the second token of the pool                           *)
C30_Witness ==
    /\ 1 \in DOMAIN Tokens /\ 2 \in DOMAIN Tokens
    /\ TokenState(1) = "expired"
    /\ Tokens[2].ClientIP = Tokens[1].ClientIP
    /\ Tokens[2].Expiry > Tokens[1].Expiry + 1
    /\ \E q \in Requests :
          /\ q.kind = "status" /\ q.ip = Tokens[1].ClientIP
          /\ q.got = 2 /\ q.resp = 200

(* C31: in password mode /status takes a token from the pool for the       *)
(* caller's address only if that address holds no assigned token that is   *)
(* unused and unexpired (time.Now().Before(Expiry), the test of            *)
(* assignToken), and otherwise answers with the token the address holds.   *)
(* So a token is never assigned or handed to two addresses, and an address *)
(* never holds two unused, unexpired tokens.                               *)
Holding(ip) ==
    {t \in DOMAIN Tokens :
        Tokens[t].ClientIP = ip /\ ~Tokens[t].Used /\ now < Tokens[t].Expiry}

Unguarded(g) ==
    /\ At(g, {"Read", "Write"})
    /\ Guard(NextOp(g).what) \notin reqs[g].holds

Racing(g1, g2) ==
    /\ g1 # g2
    /\ At(g1, {"Write"}) /\ At(g2, {"Read", "Write"})
    /\ NextOp(g1).what = NextOp(g2).what

C32_SharedStateUnderMutex ==
    /\ \A g \in Goroutines : ~Unguarded(g)
    /\ \A g1, g2 \in Goroutines : ~Racing(g1, g2)

(* C37: in every interleaving of concurrent /download requests shutdown()  *)
(* is executed at most once per server: no handler calls it (close(s.done) *)
(* and s.server.Close()) when the done channel has been closed already.    *)
CallsShutdown(q) ==
    \/ q.pc = "shutdown"
    \/ q.pc = "final" /\ shouldShutdown

C37_ShutdownAtMostOnce ==
    [][\A q \in Requests : (Stepped(q) /\ CallsShutdown(q)) => ~done]_vars

(* C33: in every bundle produced by New, each change of type add or modify *)
(* has a file_contents entry under its path (exactly one, file_contents    *)
(* being a map) whose digest equals the change's content_hash, and each    *)
(* change of type delete has an empty content_hash and no file_contents    *)
(* entry.                                                                  *)
C33_ChangesCarryTheirContent ==
    Bundled =>
        LET b == bun.bundle IN
        \A i \in DOMAIN b.Changes :
            LET c == b.Changes[i] IN
            IF c.Type \in {"add", "modify"}
            THEN /\ c.Path \in DOMAIN b.FileContents
                 /\ HashBytes(b.FileContents[c.Path]) = c.ContentHash
            ELSE /\ c.Type = "delete"
                 /\ c.ContentHash = ""
                 /\ c.Path \notin DOMAIN b.FileContents

(* New has returned a bundle with a modified and a deleted file *)
C33_Witness ==
    /\ bun.pc = "new" /\ ~bun.initial
    /\ \E i, j \in DOMAIN bun.bundle.Changes :
          /\ bun.bundle.Changes[i].Type = "modify"
          /\ bun.bundle.Changes[j].Type = "delete"

(* C34: after any sequence of track operations and imports, every tracked  *)
(* path recorded in the repository's tracking configuration lies within    *)
(* the repository's root directory.                                        *)
Beneath(root) ==
    IF root = "/r" THEN {"/r", "/r/D", "/r/f", "/r/gone"} ELSE {"/e", "/e/D"}

C34_TrackedPathsInsideRoot ==
    \A i \in DOMAIN trk.Paths : trk.Paths[i].Path \in Beneath(RepoRoot)

(* C35: after a repository move that reports success, the metadata subtree *)
(* exists at the destination and no longer exists at the source, and the   *)
(* registry holds the repository under the same name at the new root and   *)
(* has no entry for the old root.                                          *)
C35_MoveRelocates ==
    (rp.last.op = "move" /\ rp.last.err = "nil")
    => /\ Complete(rp.fs[rp.last.dst])
       /\ rp.fs[rp.last.repo.Path] = "none"
       /\ \E i \in DOMAIN rp.m.Repos :
             /\ rp.m.Repos[i].Path = rp.last.dst
             /\ rp.m.Repos[i].Name = rp.last.repo.Name
       /\ ~Registered(rp.m, rp.last.repo.Path)

(* C39: after any sequence of InitializeRepository, AddRepository,         *)
(* RemoveRepository and SetDefault calls, DefaultRepo is empty or the path *)
(* of a registered repository, and IsDefault is true for exactly that      *)
(* repository and for no other registered repository.                      *)
C39_OneDefaultRepository ==
    /\ rp.m.DefaultRepo = "" \/
          \E i \in DOMAIN rp.m.Repos : rp.m.Repos[i].Path = rp.m.DefaultRepo
    /\ \A i \in DOMAIN rp.m.Repos :
          rp.m.Repos[i].IsDefault <=> rp.m.Repos[i].Path = rp.m.DefaultRepo

(* C36: after a key exchange that completes successfully (the exporter     *)
(* answers 200 with its key and every file the side writes is written)     *)
(* with a peer that was not yet in the host registry, the registry holds a *)
(* host entry for that peer with the peer's public key, on the exporter    *)
(* side and on the importer side alike.                                    *)
HasHost(registry, name, publicKey) ==
    name \in DOMAIN registry /\ registry[name].PublicKey = publicKey

C36_KeyExchangeRecordsPeer ==
    /\ ( /\ imp.served.status = 200
         /\ ImporterIP \notin DOMAIN imp.served.before )
       => HasHost(hosts.exporter, ImporterIP, imp.served.key)
    /\ ( /\ imp.pc = "done" /\ imp.reply.status = 200 /\ imp.io
         /\ HostArg \notin DOMAIN imp.before )
       => HasHost(hosts.importer, HostArg, imp.reply.PublicKey)

(* C38: an import that returns an error at any step (download, bundle      *)
(* load, bundle move, config update, applying tracked paths) leaves the    *)
(* repository registry unchanged: no repository is registered for the      *)
(* target path by a failed import.                                         *)
C38_FailedImportRegistersNothing ==
    (trk.cmd = "import" /\ trk.err # "nil")
    => trk.registered = trk.wasRegistered

(* C40: every snapshot contains at most one File record per path, for any  *)
(* tracked-path list the tracking store accepts, including a tracked       *)
(* directory together with a separately tracked file inside it.            *)
C40_OneRecordPerPath ==
    cs.created = "snapshot"
    => \A i, j \in DOMAIN cs.Files :
          i # j => cs.Files[i].Path # cs.Files[j].Path
====
